---- MODULE Spec2Model ----
(***************************************************************************)
(* A model of omni-cli's record store: the ChatManager, ProjectManager,    *)
(* NamespaceManager and SummaryManager of src/src/*.py, the transcript     *)
(* files they write and parse, and the REPL handlers of src/src/main.py    *)
(* that combine them.                                                      *)
(*                                                                         *)
(* Representation.                                                         *)
(*   - Python str is a TLA+ string; None (JSON null) is the string NONE.   *)
(*   - datetime.now() is the integer clock; every read advances it by one  *)
(*     tick, so isoformat() strings compare as the integers do.  The       *)
(*     19-character prefix of a timestamp (second resolution) is           *)
(*     Second(t).                                                          *)
(*   - hashlib.md5(ts).hexdigest()[:8] is Md5(t), injective in t.          *)
(*   - A dict is a sequence of records in insertion order (Python dicts    *)
(*     and json keep that order, and the lookups of the code depend on it).*)
(*   - A file's text is a sequence of tokens (see the Transcript Codec).   *)
(***************************************************************************)
EXTENDS Integers, Sequences, FiniteSets, TLC

VARIABLES
    clock,            \* datetime.now(), in ticks
    chat_index,       \* ChatManager.index['chats']
    index_json,       \* <base>/index.json, as last written by _save_index
    fs,               \* the transcript and summary files: path -> text
    current_chat,     \* the conversation dict the caller holds (main: current_chat)
    appended,         \* history: chat_id -> the messages handed to add_message
    projects,         \* ProjectManager.projects['projects']
    projects_json,    \* <base>/projects.json
    namespace_index,  \* NamespaceManager.index['namespaces']
    namespace_json,   \* <base>/namespace_index.json
    summary_index,    \* SummaryManager.index['summaries']
    summary_json,     \* <base>/summary_index.json
    last,             \* the latest call on the project, namespace and summary
                      \* managers: what was called, on what, and how it ended
    menu,             \* the selector of /list or /resume: mode, display_items,
                      \* selected_index, and of the event just handled the key,
                      \* when it was enter or escape, and the result it emitted
    shown,            \* the /list composition before the one in menu
    peer_index        \* index['chats'] of a second ChatManager on the same <base>

vars == <<clock, chat_index, index_json, fs, current_chat, appended, projects,
          projects_json, namespace_index, namespace_json, summary_index,
          summary_json, last, menu, shown, peer_index>>

chat_vars == <<chat_index, index_json, current_chat, appended>>
project_vars == <<projects, projects_json>>
namespace_vars == <<namespace_index, namespace_json>>
summary_vars == <<summary_index, summary_json>>
menu_vars == <<menu, shown>>

(***************************************************************************)
(* Bounds of the model.                                                    *)
(***************************************************************************)
TicksPerSecond == 4      \* clock reads that fall within one second
MaxClock == 5            \* ticks a run of Spec may use
MaxChatClock == 5        \* ticks a run of SpecChat may use
MaxSummaryClock == 7     \* ticks a run of SpecSummary may use
MaxMessages == 2         \* messages appended to one conversation
MaxStoreClock == 4       \* ticks of a run of SpecStore
MaxStamp == 2            \* clock readings found in the store of SpecMenu
MaxMenuClock == 4        \* ticks of a run of SpecMenu
MaxManageClock == 2      \* ticks of a run of SpecManage
MaxNamesClock == 5       \* ticks of a run of SpecNames
MaxTitleClock == 6       \* ticks of a run of SpecTitle
MaxPeersClock == 6       \* ticks of a run of SpecPeers
MaxLinkClock == 6        \* ticks of a run of SpecLink
MaxGroupClock == 6       \* ticks of a run of SpecGroup
MaxPromptClock == 8      \* ticks of a run of SpecPrompt

NONE == "None"

Falsy(x) == x = NONE \/ x = ""

Second(t) == t \div TicksPerSecond

Md5(t) == "h" \o ToString(t)

Range(s) == {s[i] : i \in 1..Len(s)}

\* dict lookups on a sequence of records keyed by field k
KeyIndex(d, key, k) ==
    IF \E i \in 1..Len(d) : d[i][key] = k
    THEN CHOOSE i \in 1..Len(d) : d[i][key] = k /\ \A j \in 1..(i-1) : d[j][key] # k
    ELSE 0

\* del d[i]
DelAt(d, i) == SubSeq(d, 1, i-1) \o SubSeq(d, i+1, Len(d))

(***************************************************************************)
(* Python string functions, character by character.                        *)
(***************************************************************************)
UpperLetters == "ABCDEFGHIJKLMNOPQRSTUVWXYZ"
LowerLetters == "abcdefghijklmnopqrstuvwxyz"
Digits == "0123456789"

CharAt(s, i) == SubSeq(s, i, i)

Chars(s) == {CharAt(s, i) : i \in 1..Len(s)}

UpperSet == Chars(UpperLetters)
WordSet == Chars(UpperLetters) \cup Chars(LowerLetters) \cup Chars(Digits) \cup {"_"}
SpaceSet == {" ", "\t", "\n"}

\* str.lower() of the upper-case letters
LowerTable ==
    [c \in UpperSet |->
        CharAt(LowerLetters, CHOOSE i \in 1..Len(UpperLetters) : CharAt(UpperLetters, i) = c)]

\* str.lower() of one character
LowerChar(c) == IF c \in UpperSet THEN LowerTable[c] ELSE c

RECURSIVE Lower(_)
\* str.lower()
Lower(s) == IF s = "" THEN "" ELSE LowerChar(CharAt(s, 1)) \o Lower(SubSeq(s, 2, Len(s)))

\* the regex classes \w and \s
IsWordChar(c) == c \in WordSet
IsSpaceChar(c) == c \in SpaceSet

RECURSIVE StripNonWord(_)
\* re.sub(r'[^\w\s-]', '', s)
StripNonWord(s) ==
    IF s = "" THEN ""
    ELSE LET c == CharAt(s, 1)
             rest == StripNonWord(SubSeq(s, 2, Len(s)))
         IN IF IsWordChar(c) \/ IsSpaceChar(c) \/ c = "-" THEN c \o rest ELSE rest

RECURSIVE HyphenateSpaces(_)
\* re.sub(r'[\s]+', '-', s): every run of whitespace becomes one hyphen
HyphenateSpaces(s) ==
    IF s = "" THEN ""
    ELSE LET c == CharAt(s, 1)
             rest == SubSeq(s, 2, Len(s))
         IN IF IsSpaceChar(c)
            THEN IF rest # "" /\ IsSpaceChar(CharAt(rest, 1))
                 THEN HyphenateSpaces(rest)
                 ELSE "-" \o HyphenateSpaces(rest)
            ELSE c \o HyphenateSpaces(rest)

RECURSIVE StrStrip(_)
\* str.strip()
StrStrip(s) ==
    IF s = "" THEN ""
    ELSE IF IsSpaceChar(CharAt(s, 1)) THEN StrStrip(SubSeq(s, 2, Len(s)))
    ELSE IF IsSpaceChar(CharAt(s, Len(s))) THEN StrStrip(SubSeq(s, 1, Len(s) - 1))
    ELSE s

RECURSIVE SplitWords(_, _)
\* str.split(): the maximal runs of non-whitespace; cur is the word being read
SplitWords(s, cur) ==
    IF s = "" THEN (IF cur = "" THEN <<>> ELSE <<cur>>)
    ELSE LET c == CharAt(s, 1)
             rest == SubSeq(s, 2, Len(s))
         IN IF IsSpaceChar(c)
            THEN (IF cur = "" THEN <<>> ELSE <<cur>>) \o SplitWords(rest, "")
            ELSE SplitWords(rest, cur \o c)

RECURSIVE JoinWords(_, _)
\* sep.join(words)
JoinWords(words, sep) ==
    IF words = <<>> THEN ""
    ELSE IF Len(words) = 1 THEN words[1]
    ELSE words[1] \o sep \o JoinWords(Tail(words), sep)

\* s.rsplit('-', 1)[0]: s up to its last hyphen, or all of s when it has none
RsplitHyphenHead(s) ==
    IF \E i \in 1..Len(s) : CharAt(s, i) = "-"
    THEN LET i == CHOOSE i \in 1..Len(s) :
                      CharAt(s, i) = "-" /\ \A j \in (i+1)..Len(s) : CharAt(s, j) # "-"
         IN SubSeq(s, 1, i - 1)
    ELSE s

NameCap == 50
MeaningfulWords == 4
MeaningfulLen == 2

\* ChatManager._generate_chat_name
generate_chat_name(first_message) ==
    LET text == StripNonWord(Lower(first_message))
        words == SplitWords(text, "")
        meaningful == SelectSeq(words, LAMBDA w : Len(w) > MeaningfulLen)
        firstw == SubSeq(meaningful, 1, IF Len(meaningful) < MeaningfulWords
                                        THEN Len(meaningful) ELSE MeaningfulWords)
        name == JoinWords(firstw, "-")
        capped == IF Len(name) > NameCap THEN RsplitHyphenHead(SubSeq(name, 1, NameCap)) ELSE name
    IN IF capped # "" THEN capped ELSE "chat"

RECURSIVE KeepOnly(_, _)
\* s without the characters that are not in kept
KeepOnly(s, kept) ==
    IF s = "" THEN ""
    ELSE IF CharAt(s, 1) \in kept THEN CharAt(s, 1) \o KeepOnly(SubSeq(s, 2, Len(s)), kept)
    ELSE KeepOnly(SubSeq(s, 2, Len(s)), kept)

AlnumSet == Chars(LowerLetters) \cup Chars(UpperLetters) \cup Chars(Digits)

\* a slug that keeps letters and digits only: lower-cased, every character that is
\* not alphanumeric or whitespace stripped, whitespace runs made one hyphen
sanitize_alnum(name) == HyphenateSpaces(KeepOnly(Lower(name), AlnumSet \cup SpaceSet))

\* ProjectManager.create_project: the sanitized name that becomes the id
sanitize_name(name) == HyphenateSpaces(StripNonWord(Lower(name)))

(***************************************************************************)
(* Transcript Codec.  A file's text is a sequence of tokens.  A token is   *)
(* a record [k, a, b, n, ts]:                                              *)
(*   k = "front"  the frontmatter and title written by create_chat         *)
(*                (a: chat_id, b: name, ts: created_at)                    *)
(*   k = "hdr"    one line "## Message n - User (ts)\n" (b = NONE) or      *)
(*                "## Message n - Assistant (b) (ts)\n"  (a: the label     *)
(*                "User" or "Assistant")                                   *)
(*   k = "mark"   the text "## Message" that no header line continues      *)
(*   k = "ws"     one whitespace character (a)                             *)
(*   k = "txt"    one other character (a)                                  *)
(* Message content is text too, so it is a sequence of the same tokens: a  *)
(* user may type a line that reads like a header line.                     *)
(***************************************************************************)
Tok(k, a, b, n, ts) == [k |-> k, a |-> a, b |-> b, n |-> n, ts |-> ts]
Txt(c) == Tok("txt", c, NONE, 0, 0)
Ws(c) == Tok("ws", c, NONE, 0, 0)
Mark == Tok("mark", "## Message", NONE, 0, 0)
Hdr(label, provider_name, n, ts) == Tok("hdr", label, provider_name, n, ts)
Front(chat) == Tok("front", chat.chat_id, chat.name, 0, chat.created_at)
SummaryFront(summary) == Tok("front", summary.summary_id, summary.name, summary.word_count, summary.created_at)
\* "---\n" inside a summary document
Rule == Tok("rule", "---", NONE, 0, 0)
NL == Ws("\n")

\* ChatManager.add_message, lines 151-164: the block appended to the file
encode_message(msg_num, role, provider_name, timestamp, content) ==
    <<IF role = "user"
      THEN Hdr("User", NONE, msg_num, Second(timestamp))
      ELSE Hdr("Assistant", provider_name, msg_num, Second(timestamp))>>
    \o content \o <<NL, NL>>

\* whether the header pattern
\*   ## Message \d+ - (User|Assistant)(?: \(([^)]+)\))? \(([^)]+)\)\n
\* matches at token i: a header line whose parenthesised label, when it is
\* there, is not empty
HeaderMatches(text, i) ==
    /\ text[i].k = "hdr"
    /\ text[i].a \in {"User", "Assistant"}
    /\ text[i].b # ""

\* whether the text "## Message" starts at token i (the lookahead of the pattern)
StartsMessage(text, i) == text[i].k \in {"hdr", "mark"}

RECURSIVE BodyEnd(_, _)
\* (.*?)(?=## Message|\Z): the body runs up to the next "## Message" or the end
BodyEnd(text, i) ==
    IF i > Len(text) THEN i
    ELSE IF StartsMessage(text, i) THEN i
    ELSE BodyEnd(text, i + 1)

RECURSIVE findall(_, _)
\* re.findall(message_pattern, content, re.DOTALL), scanning from token i
findall(text, i) ==
    IF i > Len(text) THEN <<>>
    ELSE IF HeaderMatches(text, i)
    THEN LET j == BodyEnd(text, i + 1)
         IN <<[role |-> text[i].a, provider |-> text[i].b, timestamp |-> text[i].ts,
               msg_content |-> SubSeq(text, i + 1, j - 1)]>> \o findall(text, j)
    ELSE findall(text, i + 1)

RECURSIVE strip(_)
\* str.strip() of a text
strip(text) ==
    IF text = <<>> THEN <<>>
    ELSE IF Head(text).k = "ws" THEN strip(Tail(text))
    ELSE IF text[Len(text)].k = "ws" THEN strip(SubSeq(text, 1, Len(text) - 1))
    ELSE text

\* len(text.split()): the number of maximal runs of non-whitespace
WordCount(text) ==
    Cardinality({i \in 1..Len(text) :
        text[i].k # "ws" /\ (i = 1 \/ text[i-1].k = "ws")})

\* ChatManager.load_chat, lines 207-230: the messages parsed from a file
decode(text, chat_provider) ==
    LET matches == findall(text, 1)
    IN [i \in 1..Len(matches) |->
          [role |-> Lower(matches[i].role),
           content |-> strip(matches[i].msg_content),
           provider |-> IF matches[i].provider # NONE /\ matches[i].provider # ""
                        THEN matches[i].provider ELSE chat_provider,
           timestamp |-> matches[i].timestamp]]

(***************************************************************************)
(* Files.  A path is [project, kind, stamp, name]: the file                *)
(* <stamp>_<name>.md (kind "chats") or <stamp>_<name>_summary.md (kind     *)
(* "summaries"), under <base>/projects/<project>/<kind>/ or, with project  *)
(* NONE, under <base>/chats/permanent/ or <base>/summaries/.               *)
(***************************************************************************)
Exists(files, path) == path \in DOMAIN files

\* open(path, 'w'): the file is created or truncated
WriteFile(files, path, text) ==
    [p \in DOMAIN files \cup {path} |-> IF p = path THEN text ELSE files[p]]

\* open(path, 'a'): the file is created when it is not there
AppendFile(files, path, text) ==
    [p \in DOMAIN files \cup {path} |->
        IF p = path THEN (IF Exists(files, path) THEN files[path] ELSE <<>>) \o text
        ELSE files[p]]

\* os.remove(path)
RemoveFile(files, path) == [p \in DOMAIN files \ {path} |-> files[p]]

\* d[k] = rec on a dict keyed by field key: in place when k is a key, else at the end
DictPut(d, key, k, rec) ==
    IF KeyIndex(d, key, k) > 0 THEN [d EXCEPT ![KeyIndex(d, key, k)] = rec]
    ELSE Append(d, rec)

(***************************************************************************)
(* ChatManager (src/src/chat.py).  Each method is an operator from the     *)
(* state it reads to a record of the state it leaves and its result.       *)
(***************************************************************************)
NoChat ==
    [chat_id |-> NONE, name |-> NONE, provider |-> NONE, created_at |-> 0,
     updated_at |-> 0, message_count |-> 0, messages |-> <<>>, project |-> NONE]

\* ChatManager._load_index: a fresh instance reads index.json
load_index(json) == json

\* ChatManager._generate_chat_id
generate_chat_id(t) == Md5(t)

\* ChatManager._get_chat_file_path
get_chat_file_path(chat) ==
    [project |-> IF Falsy(chat.project) THEN NONE ELSE chat.project,
     kind |-> "chats",
     stamp |-> Second(chat.created_at),
     name |-> chat.name]

\* ChatManager.create_chat
create_chat(idx, files, t, name, first_message, project) ==
    LET chat_id == generate_chat_id(t)
        nm == IF name = NONE /\ ~Falsy(first_message) THEN generate_chat_name(first_message)
              ELSE IF name = NONE THEN "chat-" \o chat_id
              ELSE name
        now == t + 1
        chat == [chat_id |-> chat_id, name |-> nm, provider |-> "claude",
                 created_at |-> now, updated_at |-> now, message_count |-> 0,
                 messages |-> <<>>, project |-> project]
        file_path == get_chat_file_path(chat)
        info == [chat_id |-> chat_id, name |-> nm, file_path |-> file_path,
                 created_at |-> now, updated_at |-> now, provider |-> "claude",
                 message_count |-> 0, project |-> project]
    IN [chat |-> chat,
        index |-> DictPut(idx, "chat_id", chat_id, info),
        fs |-> WriteFile(files, file_path, <<Front(chat)>>),
        saved |-> TRUE,
        clock |-> t + 2]

\* ChatManager.add_message
add_message(idx, files, t, chat, role, content, provider) ==
    LET message == [role |-> role, content |-> content,
                    provider |-> IF Falsy(provider) THEN chat.provider ELSE provider,
                    timestamp |-> t]
        chat2 == [chat EXCEPT !.message_count = @ + 1, !.updated_at = t,
                              !.messages = Append(@, message)]
        file_path == get_chat_file_path(chat2)
        i == KeyIndex(idx, "chat_id", chat.chat_id)
    IN [chat |-> chat2,
        message |-> message,
        index |-> IF i > 0
                  THEN [idx EXCEPT ![i].updated_at = t, ![i].message_count = chat2.message_count]
                  ELSE idx,
        fs |-> AppendFile(files, file_path,
                   encode_message(chat2.message_count, role, message.provider, t, content)),
        saved |-> i > 0,
        clock |-> t + 1]

\* the loop of load_chat (lines 192-197) and of delete_chat (lines 241-245): the
\* position of the first entry, in index order, whose id or whose name is x; 0
\* when there is none
find_chat(idx, x) ==
    IF \E i \in 1..Len(idx) : idx[i].chat_id = x \/ idx[i].name = x
    THEN CHOOSE i \in 1..Len(idx) :
            /\ idx[i].chat_id = x \/ idx[i].name = x
            /\ \A j \in 1..(i-1) : ~(idx[j].chat_id = x \/ idx[j].name = x)
    ELSE 0

\* ChatManager.load_chat: found is FALSE where the code returns None
load_chat(idx, files, chat_id_or_name) ==
    LET i == find_chat(idx, chat_id_or_name)
    IN IF i = 0 THEN [found |-> FALSE, chat |-> NoChat]
       ELSE IF ~Exists(files, idx[i].file_path) THEN [found |-> FALSE, chat |-> NoChat]
       ELSE [found |-> TRUE,
             chat |-> [chat_id |-> idx[i].chat_id, name |-> idx[i].name,
                       provider |-> idx[i].provider, created_at |-> idx[i].created_at,
                       updated_at |-> idx[i].updated_at,
                       message_count |-> idx[i].message_count,
                       messages |-> decode(files[idx[i].file_path], idx[i].provider),
                       project |-> idx[i].project]]

\* ChatManager.delete_chat
delete_chat(idx, files, chat_id_or_name) ==
    LET i == find_chat(idx, chat_id_or_name)
    IN IF i = 0 THEN [result |-> FALSE, index |-> idx, fs |-> files, saved |-> FALSE]
       ELSE [result |-> TRUE,
             index |-> DelAt(idx, i),
             fs |-> IF Exists(files, idx[i].file_path)
                    THEN RemoveFile(files, idx[i].file_path) ELSE files,
             saved |-> TRUE]

\* ChatManager.list_chats
list_chats(idx) == idx

(***************************************************************************)
(* ProjectManager (src/src/project.py).  A project record is               *)
(* [name, id, namespace, created_at, updated_at, chat_count, chats]; its   *)
(* description is stored and never read, and is left out.                  *)
(***************************************************************************)
\* ProjectManager._load_projects
load_projects(json) == json

\* ProjectManager.get_project: the position of the project with id x, else of the
\* first one whose lower-cased name is x lower-cased; 0 for None
get_project(projs, x) ==
    LET byid == KeyIndex(projs, "id", x)
        lowered == Lower(x)
        named == {i \in 1..Len(projs) : Lower(projs[i].name) = lowered}
    IN IF byid > 0 THEN byid
       ELSE IF named # {} THEN CHOOSE i \in named : \A j \in named : i <= j
       ELSE 0

\* ProjectManager.create_project: raised is TRUE where the code raises ValueError
create_project(projs, t, name, namespace) ==
    LET sanitized_name == sanitize_name(name)
        project == [name |-> name, id |-> sanitized_name, namespace |-> namespace,
                    created_at |-> t, updated_at |-> t, chat_count |-> 0, chats |-> <<>>]
    IN IF Falsy(name) \/ StrStrip(name) = ""
       THEN [raised |-> TRUE, project |-> project, projects |-> projs, saved |-> FALSE, clock |-> t]
       ELSE IF KeyIndex(projs, "id", sanitized_name) > 0
       THEN [raised |-> TRUE, project |-> project, projects |-> projs, saved |-> FALSE, clock |-> t]
       ELSE [raised |-> FALSE, project |-> project,
             projects |-> DictPut(projs, "id", sanitized_name, project),
             saved |-> TRUE, clock |-> t + 1]

\* whether path lies under <base>/projects/<project_id>/
UnderProjectDir(path, project_id) ==
    path.project # NONE /\ (project_id = "" \/ path.project = project_id)

\* shutil.rmtree(project_dir)
rmtree(files, project_id) ==
    [p \in {q \in DOMAIN files : ~UnderProjectDir(q, project_id)} |-> files[p]]

\* a delete_project that removes the project's directory whatever delete_chats is
delete_project_rmtree(projs, files, project_id_or_name, delete_chats) ==
    LET i == get_project(projs, project_id_or_name)
    IN IF i = 0 THEN [result |-> FALSE, projects |-> projs, fs |-> files, saved |-> FALSE]
       ELSE [result |-> TRUE,
             projects |-> DelAt(projs, KeyIndex(projs, "id", projs[i].id)),
             fs |-> rmtree(files, projs[i].id),
             saved |-> TRUE]

\* ProjectManager.delete_project
delete_project(projs, files, project_id_or_name, delete_chats) ==
    LET i == get_project(projs, project_id_or_name)
    IN IF i = 0 THEN [result |-> FALSE, projects |-> projs, fs |-> files, saved |-> FALSE]
       ELSE [result |-> TRUE,
             projects |-> DelAt(projs, KeyIndex(projs, "id", projs[i].id)),
             fs |-> IF delete_chats THEN rmtree(files, projs[i].id) ELSE files,
             saved |-> TRUE]

\* an add_chat without the membership check of lines 194-196
add_chat_unchecked(projs, t, project_id_or_name, chat_id) ==
    LET i == get_project(projs, project_id_or_name)
        k == IF i = 0 THEN 0 ELSE KeyIndex(projs, "id", projs[i].id)
    IN IF i = 0
       THEN [raised |-> FALSE, result |-> FALSE, projects |-> projs, saved |-> FALSE, clock |-> t]
       ELSE [raised |-> FALSE, result |-> TRUE,
             projects |-> [projs EXCEPT ![k].chats = Append(@, chat_id),
                                        ![k].chat_count = @ + 1,
                                        ![k].updated_at = t],
             saved |-> TRUE, clock |-> t + 1]

\* ProjectManager.add_chat: raised is TRUE where the code raises ValueError
add_chat(projs, t, project_id_or_name, chat_id) ==
    LET i == get_project(projs, project_id_or_name)
        k == IF i = 0 THEN 0 ELSE KeyIndex(projs, "id", projs[i].id)
    IN IF i = 0
       THEN [raised |-> FALSE, result |-> FALSE, projects |-> projs, saved |-> FALSE, clock |-> t]
       ELSE IF chat_id \in Range(projs[k].chats)
       THEN [raised |-> TRUE, result |-> FALSE, projects |-> projs, saved |-> FALSE, clock |-> t]
       ELSE [raised |-> FALSE, result |-> TRUE,
             projects |-> [projs EXCEPT ![k].chats = Append(@, chat_id),
                                        ![k].chat_count = @ + 1,
                                        ![k].updated_at = t],
             saved |-> TRUE, clock |-> t + 1]

\* list.remove(x): the list without its first x
RemoveFirst(list, x) ==
    LET i == CHOOSE i \in 1..Len(list) : list[i] = x /\ \A j \in 1..(i-1) : list[j] # x
    IN DelAt(list, i)

\* ProjectManager.remove_chat
remove_chat(projs, t, project_id_or_name, chat_id) ==
    LET i == get_project(projs, project_id_or_name)
        k == IF i = 0 THEN 0 ELSE KeyIndex(projs, "id", projs[i].id)
    IN IF i = 0
       THEN [result |-> FALSE, projects |-> projs, saved |-> FALSE, clock |-> t]
       ELSE IF chat_id \notin Range(projs[k].chats)
       THEN [result |-> FALSE, projects |-> projs, saved |-> FALSE, clock |-> t]
       ELSE [result |-> TRUE,
             projects |-> [projs EXCEPT ![k].chats = RemoveFirst(@, chat_id),
                                        ![k].chat_count = @ - 1,
                                        ![k].updated_at = t],
             saved |-> TRUE, clock |-> t + 1]

\* ProjectManager.get_chat_project: the position of the first project that lists
\* chat_id; 0 for None
get_chat_project(projs, chat_id) ==
    IF \E i \in 1..Len(projs) : chat_id \in Range(projs[i].chats)
    THEN CHOOSE i \in 1..Len(projs) :
            /\ chat_id \in Range(projs[i].chats)
            /\ \A j \in 1..(i-1) : chat_id \notin Range(projs[j].chats)
    ELSE 0

\* a rename_project that renames the first project when it finds none
rename_project_any(projs, t, project_id_or_name, new_name) ==
    LET i == get_project(projs, project_id_or_name)
        k == IF i = 0 THEN (IF projs = <<>> THEN 0 ELSE 1)
             ELSE KeyIndex(projs, "id", projs[i].id)
    IN IF k = 0
       THEN [result |-> FALSE, projects |-> projs, saved |-> FALSE, clock |-> t]
       ELSE [result |-> TRUE,
             projects |-> [projs EXCEPT ![k].name = new_name, ![k].updated_at = t],
             saved |-> TRUE, clock |-> t + 1]

\* ProjectManager.rename_project
rename_project(projs, t, project_id_or_name, new_name) ==
    LET i == get_project(projs, project_id_or_name)
        k == IF i = 0 THEN 0 ELSE KeyIndex(projs, "id", projs[i].id)
    IN IF i = 0
       THEN [result |-> FALSE, projects |-> projs, saved |-> FALSE, clock |-> t]
       ELSE [result |-> TRUE,
             projects |-> [projs EXCEPT ![k].name = new_name, ![k].updated_at = t],
             saved |-> TRUE, clock |-> t + 1]

(***************************************************************************)
(* NamespaceManager (src/src/namespace.py).  A namespace record is         *)
(* [id, name, created_at, updated_at, project_ids].                        *)
(***************************************************************************)
\* NamespaceManager.get_namespace: by id, else the first with that name; 0 for None
get_namespace(nsidx, name_or_id) ==
    IF KeyIndex(nsidx, "id", name_or_id) > 0 THEN KeyIndex(nsidx, "id", name_or_id)
    ELSE KeyIndex(nsidx, "name", name_or_id)

\* NamespaceManager.create_namespace: raised is TRUE where the code raises ValueError
create_namespace(nsidx, t, name) ==
    LET ns_id == Md5(t)
        now == t + 1
        namespace == [id |-> ns_id, name |-> name, created_at |-> now,
                      updated_at |-> now, project_ids |-> <<>>]
    IN IF \E i \in 1..Len(nsidx) : nsidx[i].name = name
       THEN [raised |-> TRUE, namespace |-> namespace, index |-> nsidx, saved |-> FALSE, clock |-> t]
       ELSE [raised |-> FALSE, namespace |-> namespace,
             index |-> DictPut(nsidx, "id", ns_id, namespace),
             saved |-> TRUE, clock |-> t + 2]

\* NamespaceManager.add_project
add_project(nsidx, t, namespace_name, project_id) ==
    LET i == get_namespace(nsidx, namespace_name)
    IN IF i = 0 THEN [result |-> FALSE, index |-> nsidx, saved |-> FALSE, clock |-> t]
       ELSE IF project_id \notin Range(nsidx[i].project_ids)
       THEN [result |-> TRUE,
             index |-> [nsidx EXCEPT ![i].project_ids = Append(@, project_id),
                                     ![i].updated_at = t],
             saved |-> TRUE, clock |-> t + 1]
       ELSE [result |-> TRUE, index |-> nsidx, saved |-> FALSE, clock |-> t]

\* NamespaceManager.remove_project
remove_project(nsidx, t, namespace_name, project_id) ==
    LET i == get_namespace(nsidx, namespace_name)
    IN IF i = 0 THEN [result |-> FALSE, index |-> nsidx, saved |-> FALSE, clock |-> t]
       ELSE IF project_id \in Range(nsidx[i].project_ids)
       THEN [result |-> TRUE,
             index |-> [nsidx EXCEPT ![i].project_ids = RemoveFirst(@, project_id),
                                     ![i].updated_at = t],
             saved |-> TRUE, clock |-> t + 1]
       ELSE [result |-> TRUE, index |-> nsidx, saved |-> FALSE, clock |-> t]

\* a delete_namespace that also deletes the projects the namespace lists
delete_namespace_cascade(nsidx, projs, namespace_name) ==
    LET i == get_namespace(nsidx, namespace_name)
    IN IF i = 0
       THEN [result |-> FALSE, index |-> nsidx, projects |-> projs, saved |-> FALSE]
       ELSE [result |-> TRUE, index |-> DelAt(nsidx, i),
             projects |-> SelectSeq(projs, LAMBDA p : p.id \notin Range(nsidx[i].project_ids)),
             saved |-> TRUE]

\* NamespaceManager.delete_namespace.  The manager holds no reference to the
\* ProjectManager: the project index it is handed comes back as it was.
delete_namespace(nsidx, projs, namespace_name) ==
    LET i == get_namespace(nsidx, namespace_name)
    IN IF i = 0
       THEN [result |-> FALSE, index |-> nsidx, projects |-> projs, saved |-> FALSE]
       ELSE [result |-> TRUE, index |-> DelAt(nsidx, i), projects |-> projs, saved |-> TRUE]

\* a rename that does not look for another namespace of that name
rename_namespace_any(nsidx, t, namespace_name_or_id, new_name, fails) ==
    LET i == get_namespace(nsidx, namespace_name_or_id)
    IN IF i = 0
       THEN [raised |-> FALSE, result |-> FALSE, index |-> nsidx, saved |-> FALSE, clock |-> t]
       ELSE IF fails
       THEN [raised |-> TRUE, result |-> FALSE, index |-> [nsidx EXCEPT ![i].updated_at = t],
             saved |-> TRUE, clock |-> t + 1]
       ELSE [raised |-> FALSE, result |-> TRUE,
             index |-> [nsidx EXCEPT ![i].name = new_name, ![i].updated_at = t],
             saved |-> TRUE, clock |-> t + 1]

\* a rename_namespace that leaves the new name in the index when the directory
\* rename fails
rename_namespace_no_rollback(nsidx, t, namespace_name_or_id, new_name, fails) ==
    LET i == get_namespace(nsidx, namespace_name_or_id)
    IN IF i = 0
       THEN [raised |-> FALSE, result |-> FALSE, index |-> nsidx, saved |-> FALSE, clock |-> t]
       ELSE IF \E j \in 1..Len(nsidx) : nsidx[j].name = new_name /\ nsidx[j].id # nsidx[i].id
       THEN [raised |-> TRUE, result |-> FALSE, index |-> nsidx, saved |-> FALSE, clock |-> t]
       ELSE [raised |-> fails, result |-> ~fails,
             index |-> [nsidx EXCEPT ![i].name = new_name, ![i].updated_at = t],
             saved |-> TRUE, clock |-> t + 1]

\* NamespaceManager.rename_namespace: raised is TRUE where the code raises
\* (ValueError for a name another namespace holds, Exception after the rollback
\* of lines 206-210); fails is whether the directory rename of line 204 raises;
\* saved is whether _save_index ran, index then being what it wrote
rename_namespace(nsidx, t, namespace_name_or_id, new_name, fails) ==
    LET i == get_namespace(nsidx, namespace_name_or_id)
    IN IF i = 0
       THEN [raised |-> FALSE, result |-> FALSE, index |-> nsidx, saved |-> FALSE, clock |-> t]
       ELSE IF \E j \in 1..Len(nsidx) : nsidx[j].name = new_name /\ nsidx[j].id # nsidx[i].id
       THEN [raised |-> TRUE, result |-> FALSE, index |-> nsidx, saved |-> FALSE, clock |-> t]
       ELSE IF fails
       THEN [raised |-> TRUE, result |-> FALSE,
             index |-> [nsidx EXCEPT ![i].updated_at = t],
             saved |-> TRUE, clock |-> t + 1]
       ELSE [raised |-> FALSE, result |-> TRUE,
             index |-> [nsidx EXCEPT ![i].name = new_name, ![i].updated_at = t],
             saved |-> TRUE, clock |-> t + 1]

(***************************************************************************)
(* SummaryManager (src/src/summary.py).  A summary record is               *)
(* [summary_id, name, file_path, created_at, type, provider,               *)
(*  original_chat_id, project, word_count].                                *)
(***************************************************************************)
\* SummaryManager._get_summary_file_path
get_summary_file_path(summary) ==
    [project |-> IF Falsy(summary.project) THEN NONE ELSE summary.project,
     kind |-> "summaries",
     stamp |-> Second(summary.created_at),
     name |-> summary.name]

\* the document create_summary writes (lines 93-111)
summary_document(summary, summary_content) ==
    <<Rule, SummaryFront(summary), Rule, NL,
      Tok("title", summary.name, NONE, 0, 0), NL, NL,
      Tok("attribution", summary.type, summary.original_chat_id, 0, summary.created_at), NL, NL,
      Rule, NL>> \o summary_content \o <<NL>>

\* SummaryManager.create_summary
create_summary(sidx, files, t, chat_name, chat_id, summary_content, summary_type, project, provider) ==
    LET summary_id == Md5(t)
        now == t + 1
        summary == [summary_id |-> summary_id, name |-> chat_name,
                    original_chat_id |-> chat_id, type |-> summary_type,
                    provider |-> IF Falsy(provider) THEN "unknown" ELSE provider,
                    created_at |-> now, project |-> project,
                    word_count |-> WordCount(summary_content)]
        file_path == get_summary_file_path(summary)
        info == [summary_id |-> summary_id, name |-> summary.name, file_path |-> file_path,
                 created_at |-> now, type |-> summary_type, provider |-> summary.provider,
                 original_chat_id |-> chat_id, project |-> project,
                 word_count |-> summary.word_count]
    IN [summary |-> summary,
        index |-> DictPut(sidx, "summary_id", summary_id, info),
        fs |-> WriteFile(files, file_path, summary_document(summary, summary_content)),
        saved |-> TRUE,
        clock |-> t + 2]

\* SummaryManager.get_summary: by id, else the first with that name; 0 for None
get_summary(sidx, summary_id_or_name) ==
    IF KeyIndex(sidx, "summary_id", summary_id_or_name) > 0
    THEN KeyIndex(sidx, "summary_id", summary_id_or_name)
    ELSE KeyIndex(sidx, "name", summary_id_or_name)

\* the text after the second "---\n" of a document, stripped; the whole text when
\* it has fewer than two (load_summary, lines 190-196)
after_frontmatter(full_content) ==
    LET rules == {i \in 1..Len(full_content) : full_content[i] = Rule}
        first == CHOOSE i \in rules : \A j \in rules : i <= j
        second == CHOOSE i \in rules \ {first} : \A j \in rules \ {first} : i <= j
    IN IF Cardinality(rules) >= 2
       THEN strip(SubSeq(full_content, second + 1, Len(full_content)))
       ELSE full_content

\* summary_info['content'] = content: the record with a content field
WithContent(summary_info, content) ==
    [f \in DOMAIN summary_info \cup {"content"} |->
        IF f = "content" THEN content ELSE summary_info[f]]

\* a load_summary that drops the index entry whose file is gone
load_summary_repair(sidx, files, summary_id_or_name) ==
    LET i == get_summary(sidx, summary_id_or_name)
    IN IF i = 0 THEN [found |-> FALSE, at |-> 0, content |-> <<>>, index |-> sidx]
       ELSE IF ~Exists(files, sidx[i].file_path)
       THEN [found |-> FALSE, at |-> i, content |-> <<>>, index |-> DelAt(sidx, i)]
       ELSE LET content == after_frontmatter(files[sidx[i].file_path])
            IN [found |-> TRUE, at |-> i, content |-> content,
                index |-> [sidx EXCEPT ![i] = WithContent(@, content)]]

\* SummaryManager.load_summary: found is FALSE where the code returns None; the
\* record it returns is the index's own, so the index entry gets the content
load_summary(sidx, files, summary_id_or_name) ==
    LET i == get_summary(sidx, summary_id_or_name)
    IN IF i = 0 THEN [found |-> FALSE, at |-> 0, content |-> <<>>, index |-> sidx]
       ELSE IF ~Exists(files, sidx[i].file_path)
       THEN [found |-> FALSE, at |-> i, content |-> <<>>, index |-> sidx]
       ELSE LET content == after_frontmatter(files[sidx[i].file_path])
            IN [found |-> TRUE, at |-> i, content |-> content,
                index |-> [sidx EXCEPT ![i] = WithContent(@, content)]]

\* the loop of delete_summary (lines 217-220): the first entry whose id or name
\* is x; 0 when there is none
find_summary(sidx, x) ==
    LET hits == {i \in 1..Len(sidx) : sidx[i].summary_id = x \/ sidx[i].name = x}
    IN IF hits = {} THEN 0 ELSE CHOOSE i \in hits : \A j \in hits : i <= j

\* SummaryManager.delete_summary
delete_summary(sidx, files, summary_id_or_name) ==
    LET i == find_summary(sidx, summary_id_or_name)
    IN IF i = 0 THEN [result |-> FALSE, index |-> sidx, fs |-> files, saved |-> FALSE]
       ELSE [result |-> TRUE,
             index |-> DelAt(sidx, i),
             fs |-> IF Exists(files, sidx[i].file_path)
                    THEN RemoveFile(files, sidx[i].file_path) ELSE files,
             saved |-> TRUE]

(***************************************************************************)
(* The hierarchy composed by /list and /resume (src/src/main.py).  A node  *)
(* is the pair (type, data) of display_items: [type, id, name, parent, at] *)
(* with parent the namespace of a project or the project of a conversation *)
(* or summary, and at the timestamp its group is sorted by.                *)
(***************************************************************************)
\* a sort that puts equal keys in an order depending on when it runs
SortDescUnstable(list, key) ==
    LET Before(j, i) == IF Second(clock) % 2 = 0 THEN j < i ELSE j > i
        Rank(i) == Cardinality({j \in 1..Len(list) :
                        \/ list[j][key] > list[i][key]
                        \/ list[j][key] = list[i][key] /\ Before(j, i)}) + 1
    IN [r \in 1..Len(list) |-> list[CHOOSE i \in 1..Len(list) : Rank(i) = r]]

\* sorted(list, key=..., reverse=True) and list.sort(key=..., reverse=True):
\* descending by key, equal keys in the order they had
SortDesc(list, key) ==
    LET Rank(i) == Cardinality({j \in 1..Len(list) :
                        \/ list[j][key] > list[i][key]
                        \/ list[j][key] = list[i][key] /\ j < i}) + 1
    IN [r \in 1..Len(list) |-> list[CHOOSE i \in 1..Len(list) : Rank(i) = r]]

\* ChatManager.list_chats is list_chats above
\* SummaryManager.list_summaries
list_summaries(sidx) == SortDesc(sidx, "created_at")

\* ProjectManager.list_projects
list_projects(projs) == SortDesc(projs, "updated_at")

\* NamespaceManager.list_namespaces
list_namespaces(nsidx) == nsidx

\* the keys of a dict filled in the order of s: s without repetitions
RECURSIVE FirstSeen(_)
FirstSeen(s) ==
    IF s = <<>> THEN <<>>
    ELSE LET head == FirstSeen(SubSeq(s, 1, Len(s) - 1))
         IN IF \E i \in 1..Len(head) : head[i] = s[Len(s)] THEN head
            ELSE Append(head, s[Len(s)])

RECURSIVE Concat(_)
Concat(seqs) == IF seqs = <<>> THEN <<>> ELSE Head(seqs) \o Concat(Tail(seqs))

Ids(d, key) == {d[i][key] : i \in 1..Len(d)}

\* the test of lines 558 and 570: the reference is set and names a key of lookup
Grouped(ref, lookup_keys) == ~Falsy(ref) /\ ref \in lookup_keys

Node(type, id, name, parent, at) ==
    [type |-> type, id |-> id, name |-> name, parent |-> parent, at |-> at]

NamespaceNode(type, ns) == Node(type, ns.id, ns.name, NONE, ns.updated_at)

ProjectNode(type, p) == Node(type, p.id, p.name, p.namespace, p.updated_at)

ChatNode(c) == Node("chat", c.chat_id, c.name, c.project, c.updated_at)

SummaryNode(s) == Node("summary", s.summary_id, s.name, s.project, s.created_at)

\* namespace_projects: the namespace ids in the order their first project comes
NamespaceKeys(projs, nsidx) ==
    LET listed == SelectSeq(list_projects(projs),
                            LAMBDA p : Grouped(p.namespace, Ids(nsidx, "id")))
    IN FirstSeen([i \in 1..Len(listed) |-> listed[i].namespace])

\* a grouping that files every project that has a namespace under each of them
NamespaceProjectsAny(projs, nsidx, namespace_id) ==
    SelectSeq(list_projects(projs),
              LAMBDA p : Grouped(p.namespace, Ids(nsidx, "id")))

\* namespace_projects[namespace_id]
NamespaceProjects(projs, nsidx, namespace_id) ==
    SelectSeq(list_projects(projs), LAMBDA p : p.namespace = namespace_id)

\* a standalone group of the projects that name no namespace at all
StandaloneProjectsUnset(projs, nsidx) ==
    SelectSeq(list_projects(projs), LAMBDA p : Falsy(p.namespace))

\* standalone_projects
StandaloneProjects(projs, nsidx) ==
    SelectSeq(list_projects(projs),
              LAMBDA p : ~Grouped(p.namespace, Ids(nsidx, "id")))

\* project_chats.get(project_id, []) without the sort of line 594
ProjectChatsUnsorted(chats, project_id) ==
    SelectSeq(chats, LAMBDA c : c.project = project_id)

\* project_chats.get(project_id, []), sorted
ProjectChats(chats, project_id) ==
    SortDesc(SelectSeq(chats, LAMBDA c : c.project = project_id), "updated_at")

\* project_summaries.get(project_id, []), sorted
ProjectSummaries(summaries, project_id) ==
    SortDesc(SelectSeq(summaries, LAMBDA s : s.project = project_id), "created_at")

\* a standalone group that takes every conversation
StandaloneChatsAll(chats, projs) == SortDesc(chats, "updated_at")

\* standalone_chats, sorted
StandaloneChats(chats, projs) ==
    SortDesc(SelectSeq(chats, LAMBDA c : ~Grouped(c.project, Ids(projs, "id"))),
             "updated_at")

\* standalone_summaries, sorted
StandaloneSummaries(summaries, projs) ==
    SortDesc(SelectSeq(summaries, LAMBDA s : ~Grouped(s.project, Ids(projs, "id"))),
             "created_at")

Nodes(list, Of(_)) == [i \in 1..Len(list) |-> Of(list[i])]

\* a project's node, its conversations, then its summaries
ProjectBlock(type, p, chats, summaries) ==
    <<ProjectNode(type, p)>>
        \o Nodes(ProjectChats(chats, p.id), ChatNode)
        \o Nodes(ProjectSummaries(summaries, p.id), SummaryNode)

ProjectBlocks(type, ps, chats, summaries) ==
    Concat([i \in 1..Len(ps) |-> ProjectBlock(type, ps[i], chats, summaries)])

\* the nodes of the namespaces that have projects
NamespaceBlocks(ns_type, p_type, chats, summaries, projs, nsidx) ==
    LET keys == NamespaceKeys(projs, nsidx)
    IN Concat([k \in 1..Len(keys) |->
            <<NamespaceNode(ns_type, nsidx[KeyIndex(nsidx, "id", keys[k])])>>
                \o ProjectBlocks(p_type, NamespaceProjects(projs, nsidx, keys[k]),
                                 chats, summaries)])

\* /list: display_items (lines 546-645), from the four indexes
list_items(cidx, sidx, projs, nsidx) ==
    LET chats == list_chats(cidx)
        summaries == list_summaries(sidx)
        keys == NamespaceKeys(projs, nsidx)
        empty == SelectSeq(list_namespaces(nsidx),
                           LAMBDA ns : \A k \in 1..Len(keys) : keys[k] # ns.id)
    IN NamespaceBlocks("namespace", "project", chats, summaries, projs, nsidx)
        \o Nodes(empty, LAMBDA ns : NamespaceNode("namespace", ns))
        \o ProjectBlocks("project", StandaloneProjects(projs, nsidx), chats, summaries)
        \o Nodes(StandaloneChats(chats, projs), ChatNode)
        \o Nodes(StandaloneSummaries(summaries, projs), SummaryNode)

Header(type) == Node(type, NONE, NONE, NONE, 0)

\* /resume without a keyword: display_items (lines 888-959)
resume_items(cidx, projs, nsidx) ==
    LET chats == list_chats(cidx)
        standalone_projects == StandaloneProjects(projs, nsidx)
        standalone_chats == StandaloneChats(chats, projs)
    IN NamespaceBlocks("namespace_header", "project_header", chats, <<>>, projs, nsidx)
        \o (IF standalone_projects # <<>> /\ NamespaceKeys(projs, nsidx) # <<>>
            THEN <<Header("standalone_projects_header")>> ELSE <<>>)
        \o ProjectBlocks("project_header", standalone_projects, chats, <<>>)
        \o (IF standalone_chats # <<>>
            THEN <<Header("standalone_chats_header")>> ELSE <<>>)
        \o Nodes(standalone_chats, ChatNode)

(***************************************************************************)
(* The state after construction: empty indexes, no files, no conversation  *)
(* in hand.                                                                *)
(***************************************************************************)
NoFiles == [p \in {} |-> <<>>]

\* a call: flag is its boolean argument, ids the ids it resolved, outcome one of
\* "True", "False", "None", "raised" or the id it returned
Call(op, arg, flag, ids, outcome) ==
    [op |-> op, arg |-> arg, flag |-> flag, ids |-> ids, outcome |-> outcome]

NoCall == Call(NONE, NONE, FALSE, <<>>, NONE)

\* action_result: what the selector hands back when its application exits
Result(action, id) == [action |-> action, id |-> id]

NoResult == Result(NONE, NONE)

\* no selector on screen
NoMenu ==
    [mode |-> "closed", items |-> <<>>, selected_index |-> 0, key |-> NONE,
     result |-> NoResult]

\* a composition: the four indexes it was made from and the nodes it gave
Composition(cidx, sidx, projs, nsidx, items) ==
    [from |-> <<cidx, sidx, projs, nsidx>>, items |-> items]

NoComposition == [from |-> <<>>, items |-> <<>>]

Init ==
    /\ clock = 0
    /\ chat_index = <<>>
    /\ index_json = <<>>
    /\ fs = NoFiles
    /\ current_chat = NoChat
    /\ appended = [c \in {} |-> <<>>]
    /\ projects = <<>>
    /\ projects_json = <<>>
    /\ namespace_index = <<>>
    /\ namespace_json = <<>>
    /\ summary_index = <<>>
    /\ summary_json = <<>>
    /\ last = NoCall
    /\ menu = NoMenu
    /\ shown = NoComposition
    /\ peer_index = <<>>

(***************************************************************************)
(* Inputs.                                                                 *)
(***************************************************************************)
\* Names given to conversations.  Md5(2) is also the id of the conversation that
\* the second create_chat of a run makes.
ChatNames == {"same", Md5(2)}
FirstMessages == {"hi"}
Roles == {"user", "assistant"}
Providers == {NONE, "codex"}
\* Message texts: plain, with trailing whitespace, holding the words "## Message",
\* and holding a line that reads like a message header.
Contents ==
    { <<Txt("a")>>,
      <<Txt("a"), Ws(" ")>>,
      <<Txt("a"), Mark, Txt("b")>>,
      <<Hdr("User", NONE, 9, 0), Txt("a")>> }
\* What can be typed for a conversation: an id, a name, or neither
ChatIdentifiers ==
    {chat_index[i].chat_id : i \in 1..Len(chat_index)}
        \cup {chat_index[i].name : i \in 1..Len(chat_index)} \cup {"nope"}

(***************************************************************************)
(* ChatManager calls.                                                      *)
(***************************************************************************)
Remember(hist, chat_id, msgs) ==
    [c \in DOMAIN hist \cup {chat_id} |-> IF c = chat_id THEN msgs ELSE hist[c]]

CreateChat(name, first_message, project) ==
    LET r == create_chat(chat_index, fs, clock, name, first_message, project)
    IN /\ chat_index' = r.index
       /\ index_json' = r.index
       /\ fs' = r.fs
       /\ clock' = r.clock
       /\ current_chat' = r.chat
       /\ appended' = Remember(appended, r.chat.chat_id, <<>>)
       /\ UNCHANGED <<peer_index, menu_vars, project_vars, namespace_vars, summary_vars, last>>

AddMessage(role, content, provider) ==
    /\ current_chat # NoChat
    /\ current_chat.message_count < MaxMessages
    /\ LET r == add_message(chat_index, fs, clock, current_chat, role, content, provider)
           id == current_chat.chat_id
       IN /\ chat_index' = r.index
          /\ index_json' = IF r.saved THEN r.index ELSE index_json
          /\ fs' = r.fs
          /\ clock' = r.clock
          /\ current_chat' = r.chat
          /\ appended' = Remember(appended, id,
                            Append(IF id \in DOMAIN appended THEN appended[id] ELSE <<>>,
                                   [role |-> role, content |-> content,
                                    provider |-> r.message.provider]))
    /\ UNCHANGED <<peer_index, menu_vars, project_vars, namespace_vars, summary_vars, last>>

\* load_chat, the caller keeping the conversation it returns (as /resume does)
LoadChat(x) ==
    LET r == load_chat(chat_index, fs, x)
    IN /\ current_chat' = IF r.found THEN r.chat ELSE current_chat
       /\ UNCHANGED <<peer_index, menu_vars, clock, chat_index, index_json, fs, appended,
                      project_vars, namespace_vars, summary_vars, last>>

DeleteChat(x) ==
    LET r == delete_chat(chat_index, fs, x)
        i == find_chat(chat_index, x)
    IN /\ chat_index' = r.index
       /\ index_json' = IF r.saved THEN r.index ELSE index_json
       /\ fs' = r.fs
       /\ UNCHANGED <<peer_index, menu_vars, clock, current_chat, appended,
                      project_vars, namespace_vars, summary_vars, last>>

\* a fresh ChatManager on the same storage location
Reopen ==
    /\ chat_index' = load_index(index_json)
    /\ current_chat' = NoChat
    /\ UNCHANGED <<peer_index, menu_vars, clock, index_json, fs, appended,
                   project_vars, namespace_vars, summary_vars, last>>

\* the first tick of the second after t
NextSecond(t) == (Second(t) + 1) * TicksPerSecond

\* time passes: the clock moves to the start of the next second
Sleep ==
    /\ clock' = NextSecond(clock)
    /\ UNCHANGED <<peer_index, menu_vars, chat_vars, fs, project_vars, namespace_vars, summary_vars, last>>

(***************************************************************************)
(* SpecChat: one ChatManager and its caller, any order of calls.           *)
(***************************************************************************)
ChatCreateNamed ==
    /\ clock + 2 <= MaxChatClock
    /\ \E name \in ChatNames : CreateChat(name, NONE, NONE)

ChatCreateUnnamed ==
    /\ clock + 2 <= MaxChatClock
    /\ \E first_message \in FirstMessages \cup {NONE} : CreateChat(NONE, first_message, NONE)

ChatAddMessage ==
    /\ clock + 1 <= MaxChatClock
    /\ \E role \in Roles, content \in Contents, provider \in Providers :
          AddMessage(role, content, provider)

ChatLoad == \E x \in ChatIdentifiers : LoadChat(x)

ChatDelete == \E x \in ChatIdentifiers : DeleteChat(x)

ChatSleep == NextSecond(clock) <= MaxChatClock /\ Sleep

NextChat ==
    \/ ChatCreateNamed
    \/ ChatCreateUnnamed
    \/ ChatAddMessage
    \/ ChatLoad
    \/ ChatDelete
    \/ Reopen
    \/ ChatSleep

SpecChat == Init /\ [][NextChat]_vars

(***************************************************************************)
(* Claims about the ChatManager (SpecChat).                                *)
(***************************************************************************)
ChatIds == {chat_index[i].chat_id : i \in 1..Len(chat_index)}

\* the index record of the conversation with this id
ChatInfo(idx, id) == idx[KeyIndex(idx, "chat_id", id)]

\* what load_chat returns for the conversation with this id, of this index
Loaded(idx, id) == load_chat(idx, fs, id)

\* message d, read from a file, is message m as it was handed to add_message:
\* the same role and content, and the same label if an assistant's, else the
\* conversation's label
ReadsBackAs(d, m, chat_provider) ==
    /\ d.role = m.role
    /\ d.content = m.content
    /\ d.provider = IF m.role = "assistant" THEN m.provider ELSE chat_provider

\* C1: after k add_message calls on a conversation, message_count is k in the
\* conversation in hand and in the index record, and load_chat returns exactly k
\* messages, in the order they were appended.
C1_MessageCountIsAppends ==
    \A id \in ChatIds :
        LET k == Len(appended[id])
            l == Loaded(chat_index, id)
        IN /\ ChatInfo(chat_index, id).message_count = k
           /\ current_chat.chat_id = id => current_chat.message_count = k
           /\ (l.found /\ l.chat.chat_id = id) =>
                /\ Len(l.chat.messages) = k
                /\ \A j \in 1..k : l.chat.messages[j].role = appended[id][j].role

\* C2: every message written by add_message is read back by load_chat with the
\* role and content it was written with, the label of an assistant message is
\* read back, and a user message gets the conversation's label.
C2_RoundTrip ==
    \A id \in ChatIds :
        LET l == Loaded(chat_index, id)
        IN (l.found /\ l.chat.chat_id = id) =>
             \A j \in 1..Len(appended[id]) :
                /\ j <= Len(l.chat.messages)
                /\ ReadsBackAs(l.chat.messages[j], appended[id][j],
                               ChatInfo(chat_index, id).provider)

\* C3: a fresh ChatManager on the same storage location has the index of the
\* first one, and load_chat of every conversation in it returns the messages that
\* were appended.
C3_FreshInstanceAgrees ==
    LET fresh == load_index(index_json)
    IN /\ fresh = chat_index
       /\ \A i \in 1..Len(fresh) :
            LET id == fresh[i].chat_id
                l == Loaded(fresh, id)
            IN (l.found /\ l.chat.chat_id = id) =>
                 /\ Len(l.chat.messages) = Len(appended[id])
                 /\ \A j \in 1..Len(appended[id]) :
                       ReadsBackAs(l.chat.messages[j], appended[id][j], fresh[i].provider)

\* what C4 says of a delete_chat(x) that found the entry at position i
DeleteChatPost(x, i) ==
    LET gone == chat_index[i]
    IN /\ delete_chat(chat_index, fs, x).result = TRUE
       /\ gone \notin Range(list_chats(chat_index'))
       /\ ~load_chat(chat_index', fs', gone.chat_id).found
       /\ ~Exists(fs', gone.file_path)
       /\ \A j \in 1..Len(chat_index) :
            j # i =>
              /\ chat_index[j] \in Range(chat_index')
              /\ Exists(fs, chat_index[j].file_path) =>
                    /\ Exists(fs', chat_index[j].file_path)
                    /\ fs'[chat_index[j].file_path] = fs[chat_index[j].file_path]

\* C4: delete_chat(x) for an x that matches a conversation returns true and
\* removes that conversation's file and index entry; afterwards the conversation
\* is not listed, cannot be loaded and has no file, and no other conversation's
\* index entry or file has changed.
C4_DeleteChatRemovesOnlyIt ==
    [][\A x \in ChatIdentifiers :
          (DeleteChat(x) /\ find_chat(chat_index, x) # 0) =>
              DeleteChatPost(x, find_chat(chat_index, x))]_vars

(***************************************************************************)
(* Inputs of the project, namespace and summary commands.                  *)
(***************************************************************************)
ProjectNames == {"My WebApp", "a_b"}
NamespaceNames == {"work"}
\* What the backend answers to the summary prompt
SummaryReplies == { <<Txt("a")>>, <<Txt("a"), Ws(" "), Txt("b")>> }
\* What can be typed for a project: an id, a name, or neither
ProjectIdentifiers ==
    {projects[i].id : i \in 1..Len(projects)}
        \cup {projects[i].name : i \in 1..Len(projects)} \cup {"nope"}
NamespaceIdentifiers ==
    {namespace_index[i].id : i \in 1..Len(namespace_index)}
        \cup {namespace_index[i].name : i \in 1..Len(namespace_index)} \cup {"nope"}
\* Conversation ids handed to add_chat and remove_chat: those of the index and one
\* that no conversation has
MemberIds == ChatIds \cup {"c1"}

ProjectIds == {projects[i].id : i \in 1..Len(projects)}

Outcome(b) == IF b THEN "True" ELSE "False"

(***************************************************************************)
(* Project, namespace and summary calls.                                   *)
(***************************************************************************)
\* /project create (main.py 1515-1533): create_project, then add_project when a
\* namespace that exists was named
ProjectCreate(project_name, namespace_name) ==
    LET r == create_project(projects, clock, project_name, namespace_name)
        a == add_project(namespace_index, r.clock, namespace_name, r.project.id)
        listed == /\ ~r.raised
                  /\ ~Falsy(namespace_name)
                  /\ get_namespace(namespace_index, namespace_name) # 0
    IN /\ projects' = r.projects
       /\ projects_json' = IF r.saved THEN r.projects ELSE projects_json
       /\ namespace_index' = IF listed THEN a.index ELSE namespace_index
       /\ namespace_json' = IF listed /\ a.saved THEN a.index ELSE namespace_json
       /\ clock' = IF listed THEN a.clock ELSE r.clock
       /\ last' = Call("create_project", project_name, FALSE, <<r.project.id>>,
                       IF r.raised THEN "raised" ELSE r.project.id)
       /\ UNCHANGED <<peer_index, menu_vars, chat_vars, fs, summary_vars>>

\* /new (main.py 400-437): the project is looked up, the conversation is created
\* in it, and the conversation is added to the project's members
CmdNew(chat_name, project_name) ==
    LET i == IF Falsy(project_name) THEN 0 ELSE get_project(projects, project_name)
        project_id == IF i = 0 THEN NONE ELSE projects[i].id
        c == create_chat(chat_index, fs, clock, chat_name, NONE, project_id)
        member == ~Falsy(project_id)
        a == add_chat(projects, c.clock, project_name, c.chat.chat_id)
    IN /\ chat_index' = c.index
       /\ index_json' = c.index
       /\ fs' = c.fs
       /\ current_chat' = c.chat
       /\ appended' = Remember(appended, c.chat.chat_id, <<>>)
       /\ projects' = IF member THEN a.projects ELSE projects
       /\ projects_json' = IF member /\ a.saved THEN a.projects ELSE projects_json
       /\ clock' = IF member THEN a.clock ELSE c.clock
       /\ last' = IF member
                  THEN Call("add_chat", project_name, FALSE, <<c.chat.chat_id>>,
                            IF a.raised THEN "raised" ELSE Outcome(a.result))
                  ELSE last
       /\ UNCHANGED <<peer_index, menu_vars, namespace_vars, summary_vars>>

\* /project add (main.py 1559-1580): add_chat, then the index record of the
\* conversation gets the project's id
ProjectAdd(project_name, chat_id) ==
    LET r == add_chat(projects, clock, project_name, chat_id)
        k == KeyIndex(chat_index, "chat_id", chat_id)
        updated == r.result /\ k > 0
        idx == IF updated
               THEN [chat_index EXCEPT
                        ![k].project = r.projects[get_project(r.projects, project_name)].id]
               ELSE chat_index
    IN /\ projects' = r.projects
       /\ projects_json' = IF r.saved THEN r.projects ELSE projects_json
       /\ clock' = r.clock
       /\ chat_index' = idx
       /\ index_json' = IF updated THEN idx ELSE index_json
       /\ last' = Call("add_chat", project_name, FALSE, <<chat_id>>,
                       IF r.raised THEN "raised" ELSE Outcome(r.result))
       /\ UNCHANGED <<peer_index, menu_vars, fs, current_chat, appended, namespace_vars, summary_vars>>

\* /project remove (main.py 1583-1600)
ProjectRemove(project_name, chat_id) ==
    LET r == remove_chat(projects, clock, project_name, chat_id)
        k == KeyIndex(chat_index, "chat_id", chat_id)
        updated == r.result /\ k > 0
        idx == IF updated THEN [chat_index EXCEPT ![k].project = NONE] ELSE chat_index
    IN /\ projects' = r.projects
       /\ projects_json' = IF r.saved THEN r.projects ELSE projects_json
       /\ clock' = r.clock
       /\ chat_index' = idx
       /\ index_json' = IF updated THEN idx ELSE index_json
       /\ last' = Call("remove_chat", project_name, FALSE, <<chat_id>>, Outcome(r.result))
       /\ UNCHANGED <<peer_index, menu_vars, fs, current_chat, appended, namespace_vars, summary_vars>>

\* ProjectManager.delete_project called with both of its arguments
DeleteProject(project_id_or_name, delete_chats) ==
    LET r == delete_project(projects, fs, project_id_or_name, delete_chats)
        i == get_project(projects, project_id_or_name)
    IN /\ projects' = r.projects
       /\ projects_json' = IF r.saved THEN r.projects ELSE projects_json
       /\ fs' = r.fs
       /\ last' = Call("delete_project", project_id_or_name, delete_chats,
                       IF i = 0 THEN <<>> ELSE <<projects[i].id>>, Outcome(r.result))
       /\ UNCHANGED <<peer_index, menu_vars, clock, chat_vars, namespace_vars, summary_vars>>

\* NamespaceManager.create_namespace
CreateNamespace(name) ==
    LET r == create_namespace(namespace_index, clock, name)
    IN /\ namespace_index' = r.index
       /\ namespace_json' = IF r.saved THEN r.index ELSE namespace_json
       /\ clock' = r.clock
       /\ last' = Call("create_namespace", name, FALSE, <<>>,
                       IF r.raised THEN "raised" ELSE r.namespace.id)
       /\ UNCHANGED <<peer_index, menu_vars, chat_vars, fs, project_vars, summary_vars>>

\* NamespaceManager.delete_namespace; last.ids are the projects the namespace listed
DeleteNamespace(namespace_name) ==
    LET r == delete_namespace(namespace_index, projects, namespace_name)
        i == get_namespace(namespace_index, namespace_name)
    IN /\ namespace_index' = r.index
       /\ namespace_json' = IF r.saved THEN r.index ELSE namespace_json
       /\ projects' = r.projects
       /\ projects_json' = IF r.projects # projects THEN r.projects ELSE projects_json
       /\ last' = Call("delete_namespace", namespace_name, FALSE,
                       IF i = 0 THEN <<>> ELSE namespace_index[i].project_ids,
                       Outcome(r.result))
       /\ UNCHANGED <<peer_index, menu_vars, clock, chat_vars, fs, summary_vars>>

\* SummaryManager.create_summary
CreateSummary(chat_name, chat_id, summary_content, summary_type, project) ==
    LET r == create_summary(summary_index, fs, clock, chat_name, chat_id,
                            summary_content, summary_type, project, "claude")
    IN /\ summary_index' = r.index
       /\ summary_json' = r.index
       /\ fs' = r.fs
       /\ clock' = r.clock
       /\ last' = Call("create_summary", chat_name, FALSE, <<chat_id>>, r.summary.summary_id)
       /\ UNCHANGED <<peer_index, menu_vars, chat_vars, project_vars, namespace_vars>>

\* /summary (main.py 1175-1265).  confirm is what is typed at the prompt, fails
\* whether the backend call raises, reply what it returns otherwise.
CmdSummary(chat_identifier, summary_type, confirm, fails, reply) ==
    LET l == load_chat(chat_index, fs, chat_identifier)
        chat_to_summarize == l.chat
        done == /\ l.found
                /\ chat_to_summarize.messages # <<>>
                /\ Lower(StrStrip(confirm)) = "yes"
                /\ ~fails
        s == create_summary(summary_index, fs, clock, chat_to_summarize.name,
                            chat_to_summarize.chat_id, reply, summary_type,
                            chat_to_summarize.project, "claude")
        d == delete_chat(chat_index, s.fs, chat_to_summarize.chat_id)
    IN IF done
       THEN /\ summary_index' = s.index
            /\ summary_json' = s.index
            /\ chat_index' = d.index
            /\ index_json' = IF d.saved THEN d.index ELSE index_json
            /\ fs' = d.fs
            /\ clock' = s.clock
            /\ current_chat' = IF current_chat.chat_id = chat_to_summarize.chat_id
                               THEN NoChat ELSE current_chat
            /\ last' = Call("summary", chat_identifier, FALSE,
                            <<chat_to_summarize.chat_id, s.summary.summary_id>>, "True")
            /\ UNCHANGED <<peer_index, menu_vars, appended, project_vars, namespace_vars>>
       ELSE /\ last' = Call("summary", chat_identifier, FALSE, <<>>, "False")
            /\ UNCHANGED <<peer_index, menu_vars, clock, chat_vars, fs, project_vars, namespace_vars, summary_vars>>

\* What can be typed for a summary: an id, a name, or neither
SummaryIdentifiers ==
    {summary_index[i].summary_id : i \in 1..Len(summary_index)}
        \cup {summary_index[i].name : i \in 1..Len(summary_index)} \cup {"nope"}

\* SummaryManager.load_summary
LoadSummary(summary_id_or_name) ==
    LET r == load_summary(summary_index, fs, summary_id_or_name)
    IN /\ summary_index' = r.index
       /\ last' = Call("load_summary", summary_id_or_name, FALSE, <<>>,
                       IF r.found THEN summary_index[r.at].summary_id ELSE NONE)
       /\ UNCHANGED <<peer_index, menu_vars, clock, chat_vars, fs, project_vars, namespace_vars, summary_json>>

\* a conversation picked in a menu is resumed (main.py 750-755, 1079-1081):
\* load_chat, and the conversation in hand is the loaded one when there is one
ResumeChat(chat_id) ==
    LET r == load_chat(chat_index, fs, chat_id)
    IN /\ current_chat' = IF r.found THEN r.chat ELSE current_chat
       /\ last' = Call("load_chat", chat_id, FALSE, <<>>,
                       IF r.found THEN r.chat.chat_id ELSE NONE)
       /\ UNCHANGED <<peer_index, menu_vars, clock, chat_index, index_json, fs, appended,
                      project_vars, namespace_vars, summary_vars>>

\* NamespaceManager.remove_project; last.flag is whether the index was saved
RemoveProject(namespace_name, project_id) ==
    LET r == remove_project(namespace_index, clock, namespace_name, project_id)
    IN /\ namespace_index' = r.index
       /\ namespace_json' = IF r.saved THEN r.index ELSE namespace_json
       /\ clock' = r.clock
       /\ last' = Call("remove_project", namespace_name, r.saved, <<project_id>>,
                       Outcome(r.result))
       /\ UNCHANGED <<peer_index, menu_vars, chat_vars, fs, project_vars, summary_vars>>

(***************************************************************************)
(* Spec: projects, namespaces, the conversations and summaries filed under *)
(* them.                                                                   *)
(***************************************************************************)
DoNew ==
    /\ clock + 3 <= MaxClock
    /\ \E project_name \in {NONE} \cup ProjectIdentifiers : CmdNew("same", project_name)

DoProjectCreate ==
    /\ clock + 2 <= MaxClock
    /\ \E project_name \in ProjectNames, namespace_name \in {NONE} \cup NamespaceNames :
          ProjectCreate(project_name, namespace_name)

DoProjectAdd ==
    /\ clock + 1 <= MaxClock
    /\ \E x \in ProjectIdentifiers, chat_id \in MemberIds : ProjectAdd(x, chat_id)

DoProjectRemove ==
    /\ clock + 1 <= MaxClock
    /\ \E x \in ProjectIdentifiers, chat_id \in MemberIds : ProjectRemove(x, chat_id)

DoDeleteProject ==
    \E x \in ProjectIdentifiers, delete_chats \in BOOLEAN : DeleteProject(x, delete_chats)

DoCreateNamespace ==
    /\ clock + 2 <= MaxClock
    /\ \E name \in NamespaceNames : CreateNamespace(name)

DoDeleteNamespace == \E x \in NamespaceIdentifiers : DeleteNamespace(x)

DoCreateSummary ==
    /\ clock + 2 <= MaxClock
    /\ \E project \in {NONE} \cup {projects[i].id : i \in 1..Len(projects)} :
          CreateSummary("same", "c1", <<Txt("a")>>, "long", project)

DoSleep == NextSecond(clock) <= MaxClock /\ Sleep

Next ==
    \/ DoNew
    \/ DoProjectCreate
    \/ DoProjectAdd
    \/ DoProjectRemove
    \/ DoDeleteProject
    \/ DoCreateNamespace
    \/ DoDeleteNamespace
    \/ DoCreateSummary
    \/ DoSleep

Spec == Init /\ [][Next]_vars

(***************************************************************************)
(* SpecStore: a store whose projects are deleted with their files, and the *)
(* lookups made in it afterwards.                                          *)
(***************************************************************************)
StoreProjectCreate ==
    /\ clock + 2 <= MaxStoreClock
    /\ \E project_name \in ProjectNames, namespace_name \in {NONE} \cup NamespaceNames :
          ProjectCreate(project_name, namespace_name)

StoreCreateChat ==
    /\ clock + 2 <= MaxStoreClock
    /\ \E project \in {NONE} \cup ProjectIds : CreateChat("same", NONE, project)

StoreProjectAdd ==
    /\ clock + 1 <= MaxStoreClock
    /\ \E x \in ProjectIdentifiers, chat_id \in MemberIds : ProjectAdd(x, chat_id)

StoreDeleteProject ==
    \E x \in ProjectIdentifiers, delete_chats \in BOOLEAN : DeleteProject(x, delete_chats)

StoreCreateNamespace ==
    /\ clock + 2 <= MaxStoreClock
    /\ \E name \in NamespaceNames : CreateNamespace(name)

StoreCreateSummary ==
    /\ clock + 2 <= MaxStoreClock
    /\ \E project \in {NONE} \cup ProjectIds :
          CreateSummary("same", "c1", <<Txt("a")>>, "long", project)

StoreLoadSummary == \E x \in SummaryIdentifiers : LoadSummary(x)

StoreResume == \E x \in ChatIds \cup {"nope"} : ResumeChat(x)

StoreRemoveProject ==
    /\ clock + 1 <= MaxStoreClock
    /\ \E x \in NamespaceIdentifiers, project_id \in ProjectIds \cup {"nope"} :
          RemoveProject(x, project_id)

NextStore ==
    \/ StoreProjectCreate
    \/ StoreCreateChat
    \/ StoreProjectAdd
    \/ StoreDeleteProject
    \/ StoreCreateNamespace
    \/ StoreCreateSummary
    \/ StoreLoadSummary
    \/ StoreResume
    \/ StoreRemoveProject

SpecStore == Init /\ [][NextStore]_vars

(***************************************************************************)
(* SpecSummary: conversations, their messages, and /summary.               *)
(***************************************************************************)
Confirms == {" Yes ", "no"}

SumCreateChat ==
    /\ clock + 2 <= MaxSummaryClock
    /\ \E name \in ChatNames, project \in {NONE, "p"} : CreateChat(name, NONE, project)

SumAddMessage ==
    /\ clock + 1 <= MaxSummaryClock
    /\ \E role \in Roles : AddMessage(role, <<Txt("a")>>, NONE)

SumLoad == \E x \in ChatIdentifiers : LoadChat(x)

SumSummary ==
    /\ clock + 2 <= MaxSummaryClock
    /\ \E x \in ChatIdentifiers, confirm \in Confirms, fails \in BOOLEAN,
          reply \in SummaryReplies :
          CmdSummary(x, "long", confirm, fails, reply)

SumSleep == NextSecond(clock) <= MaxSummaryClock /\ Sleep

NextSummary ==
    \/ SumCreateChat
    \/ SumAddMessage
    \/ SumLoad
    \/ SumSummary
    \/ SumSleep

SpecSummary == Init /\ [][NextSummary]_vars

(***************************************************************************)
(* Claims about /summary (SpecSummary).                                    *)
(***************************************************************************)
\* what C5 says of an archival of conversation chat, whose index record was info
\* and whose summary content was reply
ArchivalPost(chat, info, reply) ==
    /\ KeyIndex(chat_index', "chat_id", chat.chat_id) = 0
    /\ ~Exists(fs', info.file_path)
    /\ Len(summary_index') = Len(summary_index) + 1
    /\ SubSeq(summary_index', 1, Len(summary_index)) = summary_index
    /\ LET e == summary_index'[Len(summary_index')]
       IN /\ e.original_chat_id = chat.chat_id
          /\ e.name = chat.name
          /\ e.project = chat.project
          /\ e.word_count = WordCount(reply)

\* C5: a confirmed /summary of a conversation with at least one message, whose
\* backend call succeeds, removes that conversation's index entry and file and
\* adds exactly one summary index entry, which has the conversation's id, name
\* and project and the number of whitespace-separated tokens of the content.
C5_ArchivalReplacesConversation ==
    [][\A x \in ChatIdentifiers, confirm \in Confirms, reply \in SummaryReplies :
          LET l == load_chat(chat_index, fs, x)
          IN (/\ CmdSummary(x, "long", confirm, FALSE, reply)
              /\ l.found
              /\ l.chat.messages # <<>>
              /\ Lower(StrStrip(confirm)) = "yes")
             => ArchivalPost(l.chat, ChatInfo(chat_index, l.chat.chat_id), reply)]_vars

(***************************************************************************)
(* Claims about projects and namespaces (Spec).                            *)
(***************************************************************************)
\* the slug of a name: lower-cased, without the characters that are not letters,
\* digits, underscores, hyphens or whitespace, each whitespace run one hyphen
SlugOf(name) ==
    HyphenateSpaces(KeepOnly(Lower(name), WordSet \cup SpaceSet \cup {"-"}))

\* what a /project create of name does when slug is what the id is made by: the
\* new record is the last of the index and has that id and the name; when the id
\* is a key already the call raises and the index is as it was
CreateProjectPost(name, slug) ==
    IF KeyIndex(projects, "id", slug) > 0
    THEN /\ last'.outcome = "raised"
         /\ projects' = projects
         /\ projects_json' = projects_json
    ELSE /\ last'.outcome = slug
         /\ Len(projects') = Len(projects) + 1
         /\ SubSeq(projects', 1, Len(projects)) = projects
         /\ projects'[Len(projects')].id = slug
         /\ projects'[Len(projects')].name = name

\* C6 as stated: the id of a created project is its name lower-cased, with the
\* non-alphanumeric characters stripped and whitespace runs made a hyphen, and a
\* create_project whose slug is a key already raises and changes nothing.
C6_SlugStripsNonAlphanumerics ==
    [][\A name \in ProjectNames, ns \in {NONE} \cup NamespaceNames :
          ProjectCreate(name, ns) => CreateProjectPost(name, sanitize_alnum(name))]_vars

\* C6 amended: the id of a created project is its name lower-cased, with every
\* character that is not a letter, digit, underscore, hyphen or whitespace
\* stripped and each whitespace run made one hyphen; a create_project whose id
\* is a key already raises ValueError and leaves the index as it was.
C6_IdIsSanitizedName ==
    [][\A name \in ProjectNames, ns \in {NONE} \cup NamespaceNames :
          ProjectCreate(name, ns) => CreateProjectPost(name, SlugOf(name))]_vars

\* a second create_project of "My WebApp" raised, with "my-webapp" and "a_b" in
\* the index
C6_Witness ==
    /\ last.op = "create_project" /\ last.arg = "My WebApp" /\ last.outcome = "raised"
    /\ \E i \in 1..Len(projects) : projects[i].id = "my-webapp" /\ projects[i].name = "My WebApp"
    /\ \E i \in 1..Len(projects) : projects[i].id = "a_b" /\ projects[i].name = "a_b"

\* the positions of the projects that list chat_id
ProjectsOf(chat_id) == {i \in 1..Len(projects) : chat_id \in Range(projects[i].chats)}

\* C7: every conversation id is in the member list of at most one project.
C7_OneProjectPerConversation ==
    \A chat_id \in MemberIds : Cardinality(ProjectsOf(chat_id)) <= 1

\* every member list is without duplicates and chat_count is its length
MembersWellFormed(projs) ==
    \A i \in 1..Len(projs) :
        /\ Cardinality(Range(projs[i].chats)) = Len(projs[i].chats)
        /\ projs[i].chat_count = Len(projs[i].chats)

\* C8: no member list has a duplicate and chat_count is its length; add_chat of
\* a member raises and changes nothing; remove_chat of a non-member returns
\* false and changes nothing.
C8_MembersAreASet ==
    [][/\ MembersWellFormed(projects)
       /\ MembersWellFormed(projects')
       /\ \A x \in ProjectIdentifiers, chat_id \in MemberIds :
            LET i == get_project(projects, x)
            IN /\ (ProjectAdd(x, chat_id) /\ i # 0 /\ chat_id \in Range(projects[i].chats))
                    => /\ last'.outcome = "raised"
                       /\ UNCHANGED <<projects, projects_json, chat_index, index_json>>
               /\ (ProjectRemove(x, chat_id) /\ i # 0 /\ chat_id \notin Range(projects[i].chats))
                    => /\ last'.outcome = "False"
                       /\ UNCHANGED <<projects, projects_json, chat_index, index_json>>]_vars

\* an add_chat of a member raised, and the project lists it once
C8_Witness ==
    /\ last.op = "add_chat" /\ last.outcome = "raised"
    /\ LET i == get_project(projects, last.arg)
       IN /\ i # 0
          /\ Len(SelectSeq(projects[i].chats, LAMBDA c : c = last.ids[1])) = 1

\* C9: delete_namespace removes the namespace's record and nothing else: every
\* project record is as it was and get_project finds it by its id.
C9_DeleteNamespaceKeepsProjects ==
    [][\A x \in NamespaceIdentifiers :
          LET i == get_namespace(namespace_index, x)
          IN (DeleteNamespace(x) /\ i # 0)
             => /\ last'.outcome = "True"
                /\ namespace_index' = DelAt(namespace_index, i)
                /\ projects' = projects
                /\ projects_json' = projects_json
                /\ \A k \in 1..Len(projects) :
                      LET g == get_project(projects', projects[k].id)
                      IN g # 0 /\ projects'[g] = projects[k]]_vars

\* a namespace that listed projects was deleted, and each of them is in the index
C9_Witness ==
    /\ last.op = "delete_namespace" /\ last.outcome = "True"
    /\ last.ids # <<>>
    /\ \A k \in 1..Len(last.ids) : get_project(projects, last.ids[k]) # 0
    /\ get_namespace(namespace_index, last.arg) = 0

\* the member conversations of project i that load_chat finds, load after the step
MembersStillLoad(i) ==
    \A c \in Range(projects[i].chats) :
        load_chat(chat_index, fs, c).found => load_chat(chat_index', fs', c).found

\* C10 as stated: delete_project, whatever its arguments, removes or changes no
\* conversation or summary index entry and removes no conversation or summary
\* file, and every member that could be loaded still can.
C10_DeleteProjectKeepsFiles ==
    [][\A x \in ProjectIdentifiers, delete_chats \in BOOLEAN :
          LET i == get_project(projects, x)
          IN (DeleteProject(x, delete_chats) /\ i # 0)
             => /\ chat_index' = chat_index
                /\ summary_index' = summary_index
                /\ fs' = fs
                /\ MembersStillLoad(i)]_vars

\* C10 amended: delete_project removes or changes no conversation or summary
\* index entry; with delete_chats false it removes no file and every member that
\* could be loaded still can; with delete_chats true the files it removes are
\* those stored under the project's directory.
C10_DeleteProjectKeepsIndexes ==
    [][\A x \in ProjectIdentifiers, delete_chats \in BOOLEAN :
          LET i == get_project(projects, x)
          IN (DeleteProject(x, delete_chats) /\ i # 0)
             => /\ last'.outcome = "True"
                /\ KeyIndex(projects', "id", projects[i].id) = 0
                /\ UNCHANGED <<chat_index, index_json, summary_index, summary_json>>
                /\ ~delete_chats => (fs' = fs /\ MembersStillLoad(i))
                /\ delete_chats =>
                      \A p \in DOMAIN fs :
                          IF p.project = projects[i].id
                          THEN p \notin DOMAIN fs'
                          ELSE p \in DOMAIN fs' /\ fs'[p] = fs[p]]_vars

\* a project was deleted with delete_chats false, and a conversation filed under
\* it is still in the index and still loads
C10_Witness ==
    /\ last.op = "delete_project" /\ ~last.flag /\ last.outcome = "True"
    /\ \E i \in 1..Len(chat_index) :
          /\ chat_index[i].project = last.ids[1]
          /\ chat_index[i].file_path.project = last.ids[1]
          /\ load_chat(chat_index, fs, chat_index[i].chat_id).found

(***************************************************************************)
(* SpecMenu: the selectors of /list and /resume over a store of two        *)
(* namespaces, two projects, two conversations and two summaries.  The     *)
(* d and r keys of /list and the keyword of /resume are not pressed.       *)
(***************************************************************************)
\* the readings of the clock found in the store; two readings can be equal
Stamps == 1..MaxStamp

\* the index entry create_chat writes (chat.py 117-127)
ChatEntry(chat_id, name, project, at) ==
    [chat_id |-> chat_id, name |-> name,
     file_path |-> get_chat_file_path([project |-> project, created_at |-> at,
                                       name |-> name]),
     created_at |-> at, updated_at |-> at, provider |-> "claude",
     message_count |-> 0, project |-> project]

\* the index entry create_summary writes (summary.py 113-125)
SummaryEntry(summary_id, name, project, at) ==
    [summary_id |-> summary_id, name |-> name,
     file_path |-> get_summary_file_path([project |-> project, created_at |-> at,
                                          name |-> name]),
     created_at |-> at, type |-> "short", provider |-> "claude",
     original_chat_id |-> "c1", project |-> project, word_count |-> 1]

\* the entry create_project writes (project.py 70-80)
ProjectEntry(name, namespace, at) ==
    [name |-> name, id |-> sanitize_name(name), namespace |-> namespace,
     created_at |-> at, updated_at |-> at, chat_count |-> 0, chats |-> <<>>]

\* the entry create_namespace writes (namespace.py 60-70)
NamespaceEntry(id, name) ==
    [id |-> id, name |-> name, created_at |-> 1, updated_at |-> 1,
     project_ids |-> <<>>]

\* the files of a store: a transcript per conversation, a document per summary
RECURSIVE StoreFiles(_, _)
StoreFiles(cidx, sidx) ==
    IF cidx # <<>>
    THEN WriteFile(StoreFiles(Tail(cidx), sidx), Head(cidx).file_path,
                   <<Front(Head(cidx))>>)
    ELSE IF sidx # <<>>
    THEN WriteFile(StoreFiles(cidx, Tail(sidx)), Head(sidx).file_path,
                   summary_document(Head(sidx), <<Txt("a")>>))
    ELSE NoFiles

MenuNamespaces == <<NamespaceEntry("n1", "work"), NamespaceEntry("n2", "home")>>

MenuProjects ==
    { <<ProjectEntry("p1", n1, 1), ProjectEntry("p2", n2, MaxStamp)>> :
          n1 \in {NONE, "n1"}, n2 \in {NONE, "n1", "n2"} }

MenuChats ==
    { <<ChatEntry("c1", "one", p1, 1), ChatEntry("c2", "two", p2, at)>> :
          p1 \in {NONE, "p1"}, p2 \in {NONE, "p1", "p2"}, at \in Stamps }

MenuSummaries ==
    { <<SummaryEntry("s1", "one", p1, 1), SummaryEntry("s2", "two", "p1", at)>> :
          p1 \in {NONE, "p1"}, at \in Stamps }

InitMenu ==
    /\ clock = 0
    /\ chat_index \in MenuChats
    /\ index_json = chat_index
    /\ summary_index \in MenuSummaries
    /\ summary_json = summary_index
    /\ fs = StoreFiles(chat_index, summary_index)
    /\ current_chat = NoChat
    /\ appended = [c \in {} |-> <<>>]
    /\ projects \in MenuProjects
    /\ projects_json = projects
    /\ namespace_index = MenuNamespaces
    /\ namespace_json = namespace_index
    /\ last = NoCall
    /\ menu = NoMenu
    /\ shown = NoComposition
    /\ peer_index = <<>>

\* display_items[selected_index[0]]
Selected == menu.items[menu.selected_index + 1]

\* the composition on screen, as the one that came before the next
Current ==
    Composition(chat_index, summary_index, projects, namespace_index, menu.items)

Closed(key, result) ==
    [mode |-> "closed", items |-> <<>>, selected_index |-> 0, key |-> key,
     result |-> result]

\* /list: the test of line 542, the composition, selected_index = [0]
ListOpened(cidx, sidx, projs, nsidx, key, result) ==
    IF \/ cidx = <<>> /\ sidx = <<>> /\ nsidx = <<>> /\ projs = <<>>
       \/ list_items(cidx, sidx, projs, nsidx) = <<>>
    THEN Closed(key, result)
    ELSE [mode |-> "list", items |-> list_items(cidx, sidx, projs, nsidx),
          selected_index |-> 0, key |-> key, result |-> result]

\* a loop that ends after a summary was viewed
AfterViewEnds(cidx, sidx, projs, nsidx, result) == Closed("enter", result)

\* /list: the loop goes round after a summary was viewed (lines 757-776, 538)
AfterView(cidx, sidx, projs, nsidx, result) ==
    ListOpened(cidx, sidx, projs, nsidx, "enter", result)

\* /list typed at the prompt
OpenList ==
    /\ menu.mode = "closed"
    /\ menu' = ListOpened(chat_index, summary_index, projects, namespace_index,
                          NONE, NoResult)
    /\ menu'.mode = "list"
    /\ UNCHANGED <<peer_index, clock, chat_vars, fs, project_vars, namespace_vars,
                   summary_vars, last, shown>>

\* /list: move_up (lines 698-701)
list_up(items, index) == IF index > 0 THEN index - 1 ELSE index

\* a move_down without the test of line 705
list_down_unguarded(items, index) == index + 1

\* /list: move_down (lines 703-706)
list_down(items, index) == IF index < Len(items) - 1 THEN index + 1 ELSE index

ListMoveUp ==
    /\ menu.mode = "list"
    /\ menu' = [menu EXCEPT !.key = NONE, !.result = NoResult,
                            !.selected_index = list_up(menu.items, @)]
    /\ UNCHANGED <<peer_index, clock, chat_vars, fs, project_vars, namespace_vars,
                   summary_vars, last, shown>>

ListMoveDown ==
    /\ menu.mode = "list"
    /\ menu' = [menu EXCEPT !.key = NONE, !.result = NoResult,
                            !.selected_index = list_down(menu.items, @)]
    /\ UNCHANGED <<peer_index, clock, chat_vars, fs, project_vars, namespace_vars,
                   summary_vars, last, shown>>

\* /list: select_item (lines 708-716) and what the loop does with its result
\* (lines 748-776)
ListSelect ==
    /\ menu.mode = "list"
    /\ IF Selected.type = "chat"
       THEN LET r == load_chat(chat_index, fs, Selected.id)
            IN /\ current_chat' = IF r.found THEN r.chat ELSE current_chat
               /\ menu' = Closed("enter", Result("resume", Selected.id))
               /\ shown' = Current
               /\ UNCHANGED <<summary_index, last>>
       ELSE IF Selected.type = "summary"
       THEN LET r == load_summary(summary_index, fs, Selected.id)
            IN /\ summary_index' = r.index
               /\ last' = Call("load_summary", Selected.id, FALSE, <<>>,
                               IF r.found THEN Selected.id ELSE NONE)
               /\ menu' = AfterView(chat_index, r.index, projects, namespace_index,
                                    Result("view_summary", Selected.id))
               /\ shown' = Current
               /\ UNCHANGED current_chat
       ELSE /\ menu' = [menu EXCEPT !.key = "enter", !.result = NoResult]
            /\ UNCHANGED <<current_chat, summary_index, last, shown>>
    /\ UNCHANGED <<peer_index, clock, chat_index, index_json, appended, fs, project_vars,
                   namespace_vars, summary_json>>

\* /list: cancel (lines 728-732, 744-745)
ListCancel ==
    /\ menu.mode = "list"
    /\ menu' = Closed("escape", Result("cancel", NONE))
    /\ shown' = Current
    /\ UNCHANGED <<peer_index, clock, chat_vars, fs, project_vars, namespace_vars,
                   summary_vars, last>>

\* /resume: first_chat_index (lines 965-971)
first_chat_index(items) ==
    IF \E i \in 1..Len(items) : items[i].type = "chat"
    THEN (CHOOSE i \in 1..Len(items) :
             /\ items[i].type = "chat"
             /\ \A j \in 1..(i-1) : items[j].type # "chat") - 1
    ELSE 0

\* /resume typed at the prompt, without a keyword
OpenResume ==
    /\ menu.mode = "closed"
    /\ chat_index # <<>>
    /\ LET items == resume_items(chat_index, projects, namespace_index)
       IN /\ items # <<>>
          /\ menu' = [mode |-> "resume", items |-> items,
                      selected_index |-> first_chat_index(items),
                      key |-> NONE, result |-> NoResult]
    /\ UNCHANGED <<peer_index, clock, chat_vars, fs, project_vars, namespace_vars,
                   summary_vars, last, shown>>

\* /resume: the loop of move_up (lines 1022-1031): the nearest conversation
\* above index, index itself when there is none
resume_up(items, index) ==
    LET above == {i \in 0..(index - 1) : items[i + 1].type = "chat"}
    IN IF above = {} THEN index ELSE CHOOSE i \in above : \A j \in above : j <= i

\* a move_down that does not skip the headers
resume_down_step(items, index) == IF index < Len(items) - 1 THEN index + 1 ELSE index

\* /resume: the loop of move_down (lines 1033-1042)
resume_down(items, index) ==
    LET below == {i \in (index + 1)..(Len(items) - 1) : items[i + 1].type = "chat"}
    IN IF below = {} THEN index ELSE CHOOSE i \in below : \A j \in below : i <= j

ResumeMoveUp ==
    /\ menu.mode = "resume"
    /\ menu' = [menu EXCEPT !.key = NONE,
                            !.selected_index = resume_up(menu.items, @)]
    /\ UNCHANGED <<peer_index, clock, chat_vars, fs, project_vars, namespace_vars,
                   summary_vars, last, shown>>

ResumeMoveDown ==
    /\ menu.mode = "resume"
    /\ menu' = [menu EXCEPT !.key = NONE,
                            !.selected_index = resume_down(menu.items, @)]
    /\ UNCHANGED <<peer_index, clock, chat_vars, fs, project_vars, namespace_vars,
                   summary_vars, last, shown>>

\* /resume: select (lines 1044-1049) and the load that follows (1075-1081)
ResumeSelect ==
    /\ menu.mode = "resume"
    /\ IF Selected.type = "chat"
       THEN LET r == load_chat(chat_index, fs, Selected.id)
            IN /\ current_chat' = IF r.found THEN r.chat ELSE current_chat
               /\ menu' = Closed("enter", Result("resume", Selected.id))
       ELSE /\ menu' = [menu EXCEPT !.key = "enter"]
            /\ UNCHANGED current_chat
    /\ UNCHANGED <<peer_index, clock, chat_index, index_json, appended, fs, project_vars,
                   namespace_vars, summary_vars, last, shown>>

\* /resume: cancel (lines 1051-1054)
ResumeCancel ==
    /\ menu.mode = "resume"
    /\ menu' = Closed("escape", NoResult)
    /\ UNCHANGED <<peer_index, clock, chat_vars, fs, project_vars, namespace_vars,
                   summary_vars, last, shown>>

\* time passes at the prompt
MenuSleep ==
    /\ menu.mode = "closed"
    /\ NextSecond(clock) <= MaxMenuClock
    /\ Sleep

NextMenu ==
    \/ OpenList
    \/ ListMoveUp
    \/ ListMoveDown
    \/ ListSelect
    \/ ListCancel
    \/ OpenResume
    \/ ResumeMoveUp
    \/ ResumeMoveDown
    \/ ResumeSelect
    \/ ResumeCancel
    \/ MenuSleep

SpecMenu == InitMenu /\ [][NextMenu]_vars

(***************************************************************************)
(* SpecManage: the d and r keys of /list, over a store of a namespace, two  *)
(* projects, a conversation and a summary.                                 *)
(***************************************************************************)
\* what is typed at "New name: "
NewNames == {"", " p2 "}

\* a loop that shows the menu it had composed before the result was handled
AfterManageStale(cidx, sidx, projs, nsidx, key, result) ==
    [mode |-> "list", items |-> menu.items, selected_index |-> 0, key |-> key,
     result |-> result]

\* /list: after a delete or rename result keep_showing_list stays True and the loop
\* body runs again (lines 538-653)
AfterManage(cidx, sidx, projs, nsidx, key, result) ==
    ListOpened(cidx, sidx, projs, nsidx, key, result)

\* /list: delete_item (lines 718-721) and the delete branch of the loop (lines
\* 778-811); confirm is what is typed at "Type 'yes' to confirm: "
ListDelete(confirm) ==
    /\ menu.mode = "list"
    /\ LET node == Selected
           yes == Lower(StrStrip(confirm)) = "yes"
           ns == IF yes /\ node.type = "namespace"
                 THEN delete_namespace(namespace_index, projects, node.name)
                 ELSE [result |-> FALSE, index |-> namespace_index, saved |-> FALSE]
           pr == IF yes /\ node.type = "project"
                 THEN delete_project(projects, fs, node.name, FALSE)
                 ELSE [result |-> FALSE, projects |-> projects, fs |-> fs, saved |-> FALSE]
           ch == IF yes /\ node.type = "chat"
                 THEN delete_chat(chat_index, pr.fs, node.id)
                 ELSE [result |-> FALSE, index |-> chat_index, fs |-> pr.fs, saved |-> FALSE]
           su == IF yes /\ node.type = "summary"
                 THEN delete_summary(summary_index, ch.fs, node.id)
                 ELSE [result |-> FALSE, index |-> summary_index, fs |-> ch.fs, saved |-> FALSE]
       IN /\ namespace_index' = ns.index
          /\ namespace_json' = IF ns.saved THEN ns.index ELSE namespace_json
          /\ projects' = pr.projects
          /\ projects_json' = IF pr.saved THEN pr.projects ELSE projects_json
          /\ chat_index' = ch.index
          /\ index_json' = IF ch.saved THEN ch.index ELSE index_json
          /\ summary_index' = su.index
          /\ summary_json' = IF su.saved THEN su.index ELSE summary_json
          /\ fs' = su.fs
          /\ current_chat' = IF yes /\ node.type = "chat" /\ current_chat.chat_id = node.id
                             THEN NoChat ELSE current_chat
          /\ last' = Call("delete", IF node.type \in {"namespace", "project"}
                                    THEN node.name ELSE node.id,
                          yes, <<node.type, node.id>>,
                          Outcome(ns.result \/ pr.result \/ ch.result \/ su.result))
          /\ menu' = AfterManage(ch.index, su.index, pr.projects, ns.index,
                                 "d", Result("delete", node.id))
          /\ shown' = Current
    /\ UNCHANGED <<peer_index, clock, appended>>

\* /list: rename_item (lines 723-726) and the rename branch of the loop (lines
\* 813-861); typed is what is typed at "New name: ", fails whether the directory
\* rename of a namespace raises.  ChatManager has no rename_chat: the call of
\* line 849 raises AttributeError, which line 858 catches.  A summary node has
\* no branch.
ListRename(typed, fails) ==
    /\ menu.mode = "list"
    /\ LET node == Selected
           new_name == StrStrip(typed)
           ns == IF new_name # "" /\ node.type = "namespace"
                 THEN rename_namespace(namespace_index, clock, node.id, new_name, fails)
                 ELSE [raised |-> FALSE, result |-> FALSE, index |-> namespace_index,
                       saved |-> FALSE, clock |-> clock]
           pr == IF new_name # "" /\ node.type = "project"
                 THEN rename_project(projects, ns.clock, node.id, new_name)
                 ELSE [result |-> FALSE, projects |-> projects, saved |-> FALSE,
                       clock |-> ns.clock]
           raised == ns.raised \/ (new_name # "" /\ node.type = "chat")
       IN /\ namespace_index' = ns.index
          /\ namespace_json' = IF ns.saved THEN ns.index ELSE namespace_json
          /\ projects' = pr.projects
          /\ projects_json' = IF pr.saved THEN pr.projects ELSE projects_json
          /\ clock' = pr.clock
          /\ last' = Call("rename", new_name, fails, <<node.type, node.id>>,
                          IF raised THEN "raised" ELSE Outcome(ns.result \/ pr.result))
          /\ menu' = AfterManage(chat_index, summary_index, pr.projects, ns.index,
                                 "r", Result("rename", node.id))
          /\ shown' = Current
    /\ UNCHANGED <<peer_index, chat_vars, fs, summary_vars>>

ManageNamespaces == <<NamespaceEntry("n1", "work")>>

ManageProjects == <<ProjectEntry("p1", "n1", 1), ProjectEntry("p2", NONE, 1)>>

ManageChats == { <<ChatEntry("c1", "one", p, 1)>> : p \in {NONE, "p1", "p2"} }

ManageSummaries == <<SummaryEntry("s1", "one", NONE, 1)>>

InitManage ==
    /\ clock = 1
    /\ chat_index \in ManageChats
    /\ index_json = chat_index
    /\ summary_index = ManageSummaries
    /\ summary_json = summary_index
    /\ fs = StoreFiles(chat_index, summary_index)
    /\ current_chat = NoChat
    /\ appended = [c \in {} |-> <<>>]
    /\ projects = ManageProjects
    /\ projects_json = projects
    /\ namespace_index = ManageNamespaces
    /\ namespace_json = namespace_index
    /\ last = NoCall
    /\ menu = NoMenu
    /\ shown = NoComposition
    /\ peer_index = <<>>

ManageDelete == \E confirm \in Confirms : ListDelete(confirm)

ManageRename ==
    /\ clock + 1 <= MaxManageClock
    /\ \E typed \in NewNames, fails \in BOOLEAN : ListRename(typed, fails)

NextManage ==
    \/ OpenList
    \/ ListMoveUp
    \/ ListMoveDown
    \/ ListSelect
    \/ ListCancel
    \/ ManageDelete
    \/ ManageRename

SpecManage == InitManage /\ [][NextManage]_vars

(***************************************************************************)
(* SpecNames: creating, renaming and deleting projects and namespaces.     *)
(***************************************************************************)
RenameProject(project_id_or_name, new_name) ==
    LET r == rename_project(projects, clock, project_id_or_name, new_name)
        i == get_project(projects, project_id_or_name)
    IN /\ projects' = r.projects
       /\ projects_json' = IF r.saved THEN r.projects ELSE projects_json
       /\ clock' = r.clock
       /\ last' = Call("rename_project", new_name, FALSE,
                       IF i = 0 THEN <<>> ELSE <<projects[i].id>>, Outcome(r.result))
       /\ UNCHANGED <<peer_index, menu_vars, chat_vars, fs, namespace_vars, summary_vars>>

\* fails: whether old_dir.rename(new_dir) of line 204 raises
RenameNamespace(namespace_name_or_id, new_name, fails) ==
    LET r == rename_namespace(namespace_index, clock, namespace_name_or_id, new_name, fails)
        i == get_namespace(namespace_index, namespace_name_or_id)
    IN /\ namespace_index' = r.index
       /\ namespace_json' = IF r.saved THEN r.index ELSE namespace_json
       /\ clock' = r.clock
       /\ last' = Call("rename_namespace", new_name, fails,
                       IF i = 0 THEN <<>>
                       ELSE <<namespace_index[i].id, namespace_index[i].name>>,
                       IF r.raised THEN "raised" ELSE Outcome(r.result))
       /\ UNCHANGED <<peer_index, menu_vars, chat_vars, fs, project_vars, summary_vars>>

NamesProjects == {"p1", "p2"}

NamesNamespaces == {"work", "home"}

NamesCreateProject ==
    /\ clock + 1 <= MaxNamesClock
    /\ \E project_name \in NamesProjects : ProjectCreate(project_name, NONE)

NamesRenameProject ==
    /\ clock + 1 <= MaxNamesClock
    /\ \E x \in NamesProjects, new_name \in NamesProjects : RenameProject(x, new_name)

NamesDeleteProject == \E x \in NamesProjects : DeleteProject(x, FALSE)

NamesCreateNamespace ==
    /\ clock + 2 <= MaxNamesClock
    /\ \E name \in NamesNamespaces : CreateNamespace(name)

NamesRenameNamespace ==
    /\ clock + 1 <= MaxNamesClock
    /\ \E x \in NamesNamespaces, new_name \in NamesNamespaces, fails \in BOOLEAN :
          RenameNamespace(x, new_name, fails)

NamesDeleteNamespace == \E x \in NamesNamespaces : DeleteNamespace(x)

NextNames ==
    \/ NamesCreateProject
    \/ NamesRenameProject
    \/ NamesDeleteProject
    \/ NamesCreateNamespace
    \/ NamesRenameNamespace
    \/ NamesDeleteNamespace

SpecNames == Init /\ [][NextNames]_vars

(***************************************************************************)
(* SpecTitle: conversations created without a name.                        *)
(***************************************************************************)
\* first messages: none, empty, no word longer than two characters, the
\* scenario's question, three long words, one word of 51 letters
TitleMessages ==
    {NONE, "", "hi", "How do I implement OAuth authentication?",
     "internationalization characteristics misunderstanding",
     "aaaaaaaaaaaaaaaaaaaaaaaaaaaaaaaaaaaaaaaaaaaaaaaaaaa"}

TitleCreateChat ==
    /\ clock + 2 <= MaxTitleClock
    /\ \E first_message \in TitleMessages : CreateChat(NONE, first_message, NONE)

TitleSleep == clock + 1 <= MaxTitleClock /\ Sleep

NextTitle ==
    \/ TitleCreateChat
    \/ TitleSleep

SpecTitle == Init /\ [][NextTitle]_vars

(***************************************************************************)
(* SpecPeers: two ChatManager instances on one <base>.  chat_index is the  *)
(* mapping of the first, peer_index the mapping of the second; index.json  *)
(* and the files are shared, and nothing locks them.                       *)
(***************************************************************************)
\* a save that keeps the entries of the file that the mapping does not have
save_index_merge(index, persisted) ==
    SelectSeq(persisted, LAMBDA e : KeyIndex(index, "chat_id", e.chat_id) = 0) \o index

\* ChatManager._save_index: index.json after json.dump(self.index) over a file
\* that held persisted
save_index(index, persisted) == index

\* ChatManager.__init__ of the second instance
PeerOpen ==
    /\ peer_index' = load_index(index_json)
    /\ last' = Call("peer_open", NONE, FALSE, <<>>, NONE)
    /\ UNCHANGED <<menu_vars, clock, chat_vars, fs, project_vars, namespace_vars,
                   summary_vars>>

\* create_chat on the second instance
PeerCreateChat(name) ==
    LET r == create_chat(peer_index, fs, clock, name, NONE, NONE)
    IN /\ peer_index' = r.index
       /\ index_json' = save_index(r.index, index_json)
       /\ fs' = r.fs
       /\ clock' = r.clock
       /\ last' = Call("peer_create_chat", name, FALSE, <<r.chat.chat_id>>, "True")
       /\ UNCHANGED <<menu_vars, chat_index, current_chat, appended, project_vars,
                      namespace_vars, summary_vars>>

\* delete_chat on the second instance
PeerDeleteChat(x) ==
    LET r == delete_chat(peer_index, fs, x)
    IN /\ peer_index' = r.index
       /\ index_json' = IF r.saved THEN save_index(r.index, index_json) ELSE index_json
       /\ fs' = r.fs
       /\ last' = Call("peer_delete_chat", x, FALSE, <<>>, Outcome(r.result))
       /\ UNCHANGED <<menu_vars, clock, chat_index, current_chat, appended, project_vars,
                      namespace_vars, summary_vars>>

PeerNames == {"one", "two"}

PeersCreateChat ==
    /\ clock + 2 <= MaxPeersClock
    /\ \E name \in PeerNames : CreateChat(name, NONE, NONE)

PeersDeleteChat == \E x \in ChatIds : DeleteChat(x)

PeersPeerCreateChat ==
    /\ clock + 2 <= MaxPeersClock
    /\ \E name \in PeerNames : PeerCreateChat(name)

PeersPeerDeleteChat ==
    \E x \in {peer_index[i].chat_id : i \in 1..Len(peer_index)} : PeerDeleteChat(x)

NextPeers ==
    \/ PeersCreateChat
    \/ PeersDeleteChat
    \/ Reopen
    \/ PeerOpen
    \/ PeersPeerCreateChat
    \/ PeersPeerDeleteChat

SpecPeers == Init /\ [][NextPeers]_vars

(***************************************************************************)
(* SpecLink: a conversation, the project it is filed under, and the REPL   *)
(* commands that change either.                                            *)
(***************************************************************************)
\* main: /delete <chat-id or chat-name> (lines 1104-1142); confirm is what is
\* typed at "Type 'yes' to confirm deletion: "
CmdDelete(args, confirm) ==
    LET i == find_chat(chat_index, args)
        yes == Lower(StrStrip(confirm)) = "yes"
        r == delete_chat(chat_index, fs, args)
        deleted == i # 0 /\ yes /\ r.result
    IN /\ chat_index' = IF deleted THEN r.index ELSE chat_index
       /\ index_json' = IF deleted /\ r.saved THEN r.index ELSE index_json
       /\ fs' = IF deleted THEN r.fs ELSE fs
       /\ current_chat' = IF deleted /\ current_chat.chat_id = chat_index[i].chat_id
                          THEN NoChat ELSE current_chat
       /\ last' = Call("delete", args, yes, IF i = 0 THEN <<>> ELSE <<chat_index[i].chat_id>>,
                       Outcome(deleted))
       /\ UNCHANGED <<peer_index, menu_vars, clock, appended, project_vars, namespace_vars,
                      summary_vars>>

LinkCreateChat ==
    /\ clock + 2 <= MaxLinkClock
    /\ CreateChat("same", NONE, NONE)

LinkProjectCreate ==
    /\ clock + 1 <= MaxLinkClock
    /\ ProjectCreate("a_b", NONE)

LinkProjectAdd ==
    /\ clock + 1 <= MaxLinkClock
    /\ \E x \in ProjectIds, chat_id \in ChatIds : ProjectAdd(x, chat_id)

LinkProjectRemove ==
    /\ clock + 1 <= MaxLinkClock
    /\ \E x \in ProjectIds, chat_id \in ChatIds : ProjectRemove(x, chat_id)

LinkResume == \E x \in ChatIds : ResumeChat(x)

LinkAddMessage ==
    /\ clock + 1 <= MaxLinkClock
    /\ \E role \in Roles : AddMessage(role, <<Txt("a")>>, NONE)

LinkDelete == \E x \in ChatIds, confirm \in Confirms : CmdDelete(x, confirm)

NextLink ==
    \/ LinkCreateChat
    \/ LinkProjectCreate
    \/ LinkProjectAdd
    \/ LinkProjectRemove
    \/ LinkResume
    \/ LinkAddMessage
    \/ LinkDelete

SpecLink == Init /\ [][NextLink]_vars

(***************************************************************************)
(* Claims about resolution and not-found results.                          *)
(***************************************************************************)
\* C11: load_chat(x) and delete_chat(x) take x as an id before they take it as a
\* name: when x is the id of a conversation and the name of another, load_chat
\* returns the one with that id and delete_chat removes the one with that id,
\* wherever the two are in the index.
C11_IdBeforeName ==
    \A x \in ChatIds :
        (\E j \in 1..Len(chat_index) : chat_index[j].name = x /\ chat_index[j].chat_id # x)
        => LET a == KeyIndex(chat_index, "chat_id", x)
               l == load_chat(chat_index, fs, x)
               d == delete_chat(chat_index, fs, x)
           IN /\ l.found => l.chat.chat_id = x
              /\ d.result
              /\ d.index = DelAt(chat_index, a)

\* C12: when an index entry exists but its backing file is missing,
\* load_summary and load_chat report not-found and leave the stale entry in
\* the index, unchanged, with nothing written
C12_StaleEntryStays ==
    [][/\ \A x \in SummaryIdentifiers :
            LET i == get_summary(summary_index, x)
            IN (/\ i # 0
                /\ ~Exists(fs, summary_index[i].file_path)
                /\ LoadSummary(x))
               => /\ last'.outcome = NONE
                  /\ UNCHANGED <<summary_index, summary_json, fs>>
       /\ \A x \in ChatIds :
            LET i == find_chat(chat_index, x)
            IN (/\ i # 0
                /\ ~Exists(fs, chat_index[i].file_path)
                /\ ResumeChat(x))
               => /\ last'.outcome = NONE
                  /\ UNCHANGED <<chat_index, index_json, fs, current_chat>>]_vars

\* a summary was asked for whose entry is in the index and whose file is gone
C12_Witness ==
    /\ last.op = "load_summary"
    /\ last.outcome = NONE
    /\ get_summary(summary_index, last.arg) # 0
    /\ ~Exists(fs, summary_index[get_summary(summary_index, last.arg)].file_path)

\* what the operations listed in C13 give when nothing matches:
\* remove_result is the result of NamespaceManager.remove_project for a
\* project the namespace does not list
NotFoundResults(remove_result) ==
    /\ \A x \in ChatIdentifiers :
          find_chat(chat_index, x) = 0
          => LET d == delete_chat(chat_index, fs, x)
             IN ~d.result /\ d.index = chat_index /\ d.fs = fs /\ ~d.saved
    /\ \A x \in SummaryIdentifiers :
          find_summary(summary_index, x) = 0
          => LET d == delete_summary(summary_index, fs, x)
             IN ~d.result /\ d.index = summary_index /\ d.fs = fs /\ ~d.saved
    /\ \A x \in ProjectIdentifiers :
          get_project(projects, x) = 0
          => /\ \A delete_chats \in BOOLEAN :
                   LET d == delete_project(projects, fs, x, delete_chats)
                   IN /\ ~d.result /\ ~d.saved
                      /\ d.projects = projects /\ d.fs = fs
             /\ LET r == rename_project(projects, clock, x, "new")
                IN ~r.result /\ ~r.saved /\ r.projects = projects /\ r.clock = clock
             /\ \A chat_id \in MemberIds :
                   /\ LET a == add_chat(projects, clock, x, chat_id)
                      IN ~a.result /\ ~a.saved /\ a.projects = projects
                   /\ LET a == remove_chat(projects, clock, x, chat_id)
                      IN ~a.result /\ ~a.saved /\ a.projects = projects
    /\ \A i \in 1..Len(projects), chat_id \in MemberIds :
          chat_id \notin Range(projects[i].chats)
          => LET a == remove_chat(projects, clock, projects[i].id, chat_id)
             IN ~a.result /\ ~a.saved /\ a.projects = projects
    /\ \A x \in NamespaceIdentifiers :
          get_namespace(namespace_index, x) = 0
          => /\ LET d == delete_namespace(namespace_index, projects, x)
                IN /\ ~d.result /\ ~d.saved
                   /\ d.index = namespace_index /\ d.projects = projects
             /\ \A fails \in BOOLEAN :
                LET r == rename_namespace(namespace_index, clock, x, "new", fails)
                IN /\ ~r.raised /\ ~r.result /\ ~r.saved
                   /\ r.index = namespace_index
             /\ \A project_id \in ProjectIds \cup {"nope"} :
                   /\ LET a == add_project(namespace_index, clock, x, project_id)
                      IN ~a.result /\ ~a.saved /\ a.index = namespace_index
                   /\ LET a == remove_project(namespace_index, clock, x, project_id)
                      IN ~a.result /\ ~a.saved /\ a.index = namespace_index
    /\ \A i \in 1..Len(namespace_index), project_id \in ProjectIds \cup {"nope"} :
          project_id \notin Range(namespace_index[i].project_ids)
          => LET a == remove_project(namespace_index, clock,
                                     namespace_index[i].name, project_id)
             IN /\ a.result = remove_result
                /\ ~a.saved /\ a.index = namespace_index /\ a.clock = clock

\* C13 as stated: each listed operation, the removal of a non-member
\* included, gives False when nothing matches and changes nothing
C13_NotFoundIsFalse == NotFoundResults(FALSE)

\* C13: each listed operation gives a boolean without raising and changes no
\* index and no file when nothing matches; the boolean is False, except that
\* remove_project gives True for a project the existing namespace does not list
C13_NotFoundChangesNothing == NotFoundResults(TRUE)

\* remove_project was called on an existing namespace for a project it does
\* not list, and nothing was saved
C13_Witness ==
    /\ last.op = "remove_project"
    /\ last.outcome = "True"
    /\ ~last.flag
    /\ get_namespace(namespace_index, last.arg) # 0
    /\ last.ids[1] \notin
           Range(namespace_index[get_namespace(namespace_index, last.arg)].project_ids)

(***************************************************************************)
(* Claims about the composed hierarchy and its selectors, under SpecMenu.  *)
(***************************************************************************)
Indexes == <<chat_index, summary_index, projects, namespace_index>>

NamespaceTypes == {"namespace", "namespace_header"}
ProjectTypes == {"project", "project_header"}
Composed == menu.mode \in {"list", "resume"}

\* node i is a project filed under a namespace of the index
InNamespace(i) ==
    /\ menu.items[i].type \in ProjectTypes
    /\ Grouped(menu.items[i].parent, Ids(namespace_index, "id"))

\* node i is a conversation or summary filed under a project of the index
InProject(i) ==
    /\ menu.items[i].type \in {"chat", "summary"}
    /\ Grouped(menu.items[i].parent, Ids(projects, "id"))

C15_ProjectRightAfterNamespace ==
    Composed =>
        \A i \in 1..Len(menu.items) :
            InNamespace(i)
            => /\ i > 1
               /\ menu.items[i - 1].type \in NamespaceTypes
               /\ menu.items[i - 1].id = menu.items[i].parent

\* C15: every project node under a namespace comes after that namespace's
\* node with no other namespace node and no standalone header in between, and
\* the node right after a namespace node that has projects is a project node
C15_ProjectUnderItsNamespace ==
    Composed =>
        \A i \in 1..Len(menu.items) :
            InNamespace(i)
            => \E k \in 1..(i - 1) :
                  /\ menu.items[k].type \in NamespaceTypes
                  /\ menu.items[k].id = menu.items[i].parent
                  /\ menu.items[k + 1].type \in ProjectTypes
                  /\ \A j \in (k + 1)..(i - 1) :
                        menu.items[j].type \in ProjectTypes \cup {"chat", "summary"}

\* two projects of one namespace are on screen
C15_Witness ==
    /\ Composed
    /\ \E i, j \in 1..Len(menu.items) :
          /\ i < j
          /\ InNamespace(i)
          /\ InNamespace(j)
          /\ menu.items[i].parent = menu.items[j].parent

\* C16: in /list every conversation or summary node filed under a project of
\* the index comes after that project's node and before the next project or
\* namespace node
C16_MemberUnderItsProject ==
    menu.mode = "list" =>
        \A i \in 1..Len(menu.items) :
            InProject(i)
            => \E k \in 1..(i - 1) :
                  /\ menu.items[k].type = "project"
                  /\ menu.items[k].id = menu.items[i].parent
                  /\ \A j \in (k + 1)..(i - 1) :
                        menu.items[j].type \in {"chat", "summary"}

\* a conversation and a summary of a project are on screen, and another
\* project's node comes after them
C16_Witness ==
    /\ menu.mode = "list"
    /\ \E i, j, k \in 1..Len(menu.items) :
          /\ i < j /\ j < k
          /\ InProject(i) /\ menu.items[i].type = "chat"
          /\ InProject(j) /\ menu.items[j].type = "summary"
          /\ menu.items[i].parent = menu.items[j].parent
          /\ menu.items[k].type = "project"

\* the group of node i: its project when that is one of the index, else the
\* standalone group
GroupOf(i) == IF InProject(i) THEN menu.items[i].parent ELSE NONE

\* C17: within every project group and the standalone group the conversation
\* nodes are in non-increasing updated_at order and the summary nodes in
\* non-increasing created_at order
C17_GroupsNewestFirst ==
    Composed =>
        \A i, j \in 1..Len(menu.items) :
            (/\ i < j
             /\ menu.items[i].type \in {"chat", "summary"}
             /\ menu.items[i].type = menu.items[j].type
             /\ GroupOf(i) = GroupOf(j))
            => menu.items[i].at >= menu.items[j].at

\* the two conversations of one project are on screen, the later entry of the
\* index first because it is newer
C17_Witness ==
    /\ Composed
    /\ \E i \in 1..(Len(menu.items) - 1) :
          /\ InProject(i)
          /\ menu.items[i].type = "chat" /\ menu.items[i + 1].type = "chat"
          /\ menu.items[i].id = chat_index[2].chat_id
          /\ menu.items[i + 1].id = chat_index[1].chat_id
          /\ menu.items[i].at > menu.items[i + 1].at

\* C18 as stated: the /list cursor rests on a conversation or summary node
C18_CursorOnConversationOrSummary ==
    menu.mode = "list" => Selected.type \in {"chat", "summary"}

\* C18: the /list cursor starts on the first node and is always a valid
\* index of a node of any type, namespace and project nodes included; a move
\* goes to the neighbouring node, and move-up at the first node and move-down
\* at the last are no-ops
C18_CursorOnAnyNode ==
    menu.mode = "list" =>
        LET n == Len(menu.items)
        IN /\ menu.selected_index \in 0..(n - 1)
           /\ (menu.key = "enter" /\ menu.result.action = "view_summary")
                 => menu.selected_index = 0
           /\ \A index \in 0..(n - 1) :
                 /\ list_up(menu.items, index) \in 0..(n - 1)
                 /\ list_down(menu.items, index) \in 0..(n - 1)
                 /\ index > 0 => list_up(menu.items, index) = index - 1
                 /\ index < n - 1 => list_down(menu.items, index) = index + 1
           /\ list_up(menu.items, 0) = 0
           /\ list_down(menu.items, n - 1) = n - 1

\* the /list cursor was moved and rests on a project node
C18_Witness ==
    /\ menu.mode = "list"
    /\ menu.selected_index > 0
    /\ Selected.type = "project"

\* the positions of the conversation nodes
ChatPositions == {i \in 0..(Len(menu.items) - 1) : menu.items[i + 1].type = "chat"}

\* C19: the /resume cursor starts on the first conversation node and is
\* always a valid index of a conversation node; a move lands on the nearest
\* conversation node in its direction, and leaves the cursor where it is when
\* there is none: no wraparound
C19_ResumeCursorOnConversation ==
    menu.mode = "resume" =>
        /\ menu.selected_index \in ChatPositions
        /\ first_chat_index(menu.items) \in ChatPositions
        /\ \A i \in ChatPositions : first_chat_index(menu.items) <= i
        /\ \A index \in ChatPositions :
              LET up == resume_up(menu.items, index)
                  down == resume_down(menu.items, index)
              IN /\ up \in ChatPositions /\ down \in ChatPositions
                 /\ up <= index /\ index <= down
                 /\ \A i \in ChatPositions : ~(up < i /\ i < index)
                 /\ \A i \in ChatPositions : ~(index < i /\ i < down)
                 /\ up = index <=> \A i \in ChatPositions : i >= index
                 /\ down = index <=> \A i \in ChatPositions : i <= index

\* the /resume cursor was moved down past a header to the last conversation
C19_Witness ==
    /\ menu.mode = "resume"
    /\ menu.selected_index > first_chat_index(menu.items)
    /\ menu.items[menu.selected_index].type # "chat"
    /\ \A i \in ChatPositions : i <= menu.selected_index

\* C20: in /list, select on a conversation node emits a resume result and ends
\* the loop; select on a summary node emits a view result and the menu is on
\* screen again; select on a namespace or project node emits no result and
\* leaves cursor and mode as they were
C20_SelectByNodeType ==
    [][ListSelect =>
         /\ Selected.type = "chat"
               => /\ menu'.result = Result("resume", Selected.id)
                  /\ menu'.mode = "closed"
         /\ Selected.type = "summary"
               => /\ menu'.result = Result("view_summary", Selected.id)
                  /\ menu'.mode = "list"
         /\ Selected.type \in {"namespace", "project"}
               => /\ menu'.result = NoResult
                  /\ menu'.mode = menu.mode
                  /\ menu'.selected_index = menu.selected_index
                  /\ menu'.items = menu.items]_vars

\* a summary was selected and viewed, the menu is on screen again
C20_Witness ==
    /\ menu.mode = "list"
    /\ menu.key = "enter"
    /\ menu.result.action = "view_summary"
    /\ \E i \in 1..Len(summary_index) :
          /\ summary_index[i].summary_id = menu.result.id
          /\ "content" \in DOMAIN summary_index[i]

(***************************************************************************)
(* Claims about deleting and renaming from /list.                          *)
(***************************************************************************)
\* C21: a delete event is tagged with the node under the cursor; an entity is
\* removed only after 'yes' was typed, and then exactly the entity of the tagged
\* node, the one whose type and id are the node's; any other confirmation leaves
\* all four stores unchanged.
C21_DeleteExactlyTheNode ==
    [][\A confirm \in Confirms :
         ListDelete(confirm) =>
           LET node == Selected
               yes == Lower(StrStrip(confirm)) = "yes"
               Gone(type, key, e) == yes /\ node.type = type /\ e[key] = node.id
           IN /\ menu'.result = Result("delete", node.id)
              /\ namespace_index' =
                   SelectSeq(namespace_index, LAMBDA e : ~Gone("namespace", "id", e))
              /\ projects' = SelectSeq(projects, LAMBDA e : ~Gone("project", "id", e))
              /\ chat_index' = SelectSeq(chat_index, LAMBDA e : ~Gone("chat", "chat_id", e))
              /\ summary_index' =
                   SelectSeq(summary_index, LAMBDA e : ~Gone("summary", "summary_id", e))
              /\ namespace_json' = namespace_index'
              /\ projects_json' = projects'
              /\ index_json' = chat_index'
              /\ summary_json' = summary_index']_vars

\* C22: a rename event on a conversation node with a non-empty captured name sets
\* the name in the conversation's index record, persists the index and reports
\* true.
C22_RenameSetsConversationName ==
    [][\A typed \in NewNames, fails \in BOOLEAN :
         ListRename(typed, fails) /\ Selected.type = "chat" /\ StrStrip(typed) # ""
           => /\ \E i \in 1..Len(chat_index') :
                    /\ chat_index'[i].chat_id = Selected.id
                    /\ chat_index'[i].name = StrStrip(typed)
              /\ index_json' = chat_index'
              /\ last'.outcome = "True"]_vars

\* C23: cancel emits the cancel result and ends the /list loop with no store
\* changed; after a view, delete or rename result was handled the menu is composed
\* again from the stores as they then are, so an entity that was deleted is not in
\* the next menu; the loop ends only on cancel, on resume, or when nothing is left
\* to display.
C23_LoopRecomposes ==
    [][menu.mode = "list" =>
         /\ menu'.key = "escape" =>
              /\ menu'.result = Result("cancel", NONE)
              /\ menu'.mode = "closed"
              /\ UNCHANGED <<chat_index, index_json, summary_index, summary_json, fs,
                             projects, projects_json, namespace_index, namespace_json>>
         /\ menu'.result.action \in {"view_summary", "delete", "rename"} =>
              menu' = ListOpened(chat_index', summary_index', projects', namespace_index',
                                 menu'.key, menu'.result)
         /\ \A n \in Range(menu'.items) :
              \/ n.type = "namespace" /\ \E e \in Range(namespace_index') : e.id = n.id
              \/ n.type = "project" /\ \E e \in Range(projects') : e.id = n.id
              \/ n.type = "chat" /\ \E e \in Range(chat_index') : e.chat_id = n.id
              \/ n.type = "summary" /\ \E e \in Range(summary_index') : e.summary_id = n.id
         /\ menu'.mode = "closed" =>
              \/ menu'.result.action \in {"cancel", "resume"}
              \/ list_items(chat_index', summary_index', projects', namespace_index') = <<>>]_vars

\* C23 witness: an entity was deleted from the menu and the menu is shown again
\* without it
C23_Witness ==
    /\ menu.mode = "list"
    /\ menu.result.action = "delete"
    /\ last.op = "delete" /\ last.flag /\ last.outcome = "True"
    /\ \A n \in Range(menu.items) : <<n.type, n.id>> # last.ids
    /\ \E n \in Range(shown.items) : <<n.type, n.id>> = last.ids

(***************************************************************************)
(* Claims about the names of projects and namespaces.                      *)
(***************************************************************************)
\* C24: after any sequence of create_project, rename_project and delete_project
\* no two project records have the same name, and a create_project whose name
\* or slug is already taken is rejected.
C24_UniqueProjectNames ==
    /\ \A i, j \in 1..Len(projects) : i # j => projects[i].name # projects[j].name
    /\ last.op = "create_project" /\ last.outcome # "raised" =>
         \A i \in 1..Len(projects) :
            (projects[i].name = last.arg \/ projects[i].id = last.ids[1])
               => projects[i].created_at = clock - 1

\* C25: after any sequence of create_namespace, rename_namespace and
\* delete_namespace no two namespaces have the same name; a create_namespace with
\* a name that exists, and a rename_namespace to a name that a different
\* namespace holds, raise and leave the index unchanged.
C25_UniqueNamespaceNames ==
    [][/\ \A i, j \in 1..Len(namespace_index') :
             i # j => namespace_index'[i].name # namespace_index'[j].name
       /\ \A name \in NamesNamespaces :
             CreateNamespace(name) /\ (\E e \in Range(namespace_index) : e.name = name)
                => last'.outcome = "raised" /\ UNCHANGED namespace_vars
       /\ \A x \in NamesNamespaces, new_name \in NamesNamespaces, fails \in BOOLEAN :
             /\ RenameNamespace(x, new_name, fails)
             /\ get_namespace(namespace_index, x) # 0
             /\ \E e \in Range(namespace_index) :
                   /\ e.name = new_name
                   /\ e.id # namespace_index[get_namespace(namespace_index, x)].id
             => last'.outcome = "raised" /\ UNCHANGED namespace_vars]_vars

\* C25 witness: a rename to the name of the other namespace was refused
C25_Witness ==
    /\ last.op = "rename_namespace"
    /\ last.outcome = "raised"
    /\ ~last.flag
    /\ Len(namespace_index) = 2
    /\ \E e \in Range(namespace_index) : e.name = last.arg /\ e.id # last.ids[1]

\* C28: when the directory rename fails during rename_namespace, the call raises
\* and the namespace's name, in the in-memory index and in the persisted one, is
\* the old name afterwards.
C28_FailedRenameKeepsName ==
    [][\A x \in NamesNamespaces, new_name \in NamesNamespaces :
         LET i == get_namespace(namespace_index, x)
         IN /\ RenameNamespace(x, new_name, TRUE)
            /\ i # 0
            /\ ~\E e \in Range(namespace_index) :
                   e.name = new_name /\ e.id # namespace_index[i].id
            => /\ last'.outcome = "raised"
               /\ Len(namespace_index') = Len(namespace_index)
               /\ namespace_index'[i].id = namespace_index[i].id
               /\ namespace_index'[i].name = namespace_index[i].name
               /\ namespace_json' = namespace_index']_vars

\* C28 witness: a rename to a free name failed at the directory and the
\* namespace has its old name
C28_Witness ==
    /\ last.op = "rename_namespace"
    /\ last.flag
    /\ last.outcome = "raised"
    /\ last.arg # last.ids[2]
    /\ \A e \in Range(namespace_index) : e.name # last.arg
    /\ \E e \in Range(namespace_json) : e.id = last.ids[1] /\ e.name = last.ids[2]

(***************************************************************************)
(* Claims about the conversation's name and file.                          *)
(***************************************************************************)
\* C26: create_chat with no name and a non-empty first_message names the
\* conversation with the first (at most 4) words of length > 2 of the lower-cased,
\* punctuation-stripped message, whole and joined by hyphens, at most 50
\* characters in all ('chat' when the message has no such word); with neither
\* name nor first_message the name is 'chat-' followed by the id.
C26_NameOfWholeWords ==
    [][\A first_message \in TitleMessages :
         CreateChat(NONE, first_message, NONE) =>
           LET name == current_chat'.name
               words == SelectSeq(SplitWords(StripNonWord(Lower(first_message)), ""),
                                  LAMBDA w : Len(w) > MeaningfulLen)
               most == IF Len(words) < MeaningfulWords THEN Len(words) ELSE MeaningfulWords
           IN IF Falsy(first_message) THEN name = "chat-" \o current_chat'.chat_id
              ELSE IF words = <<>> THEN name = "chat"
              ELSE /\ Len(name) <= NameCap
                   /\ \E k \in 1..most : name = JoinWords(SubSeq(words, 1, k), "-")]_vars

\* C27: the conversation file is append-only: create_chat writes the header
\* once, and an add_message changes the files only by appending one message
\* block to one file, so what a file held before a create_chat or add_message is
\* a prefix of what it holds after, and no header or message block is rewritten.
C27_AppendOnly ==
    [][/\ (\E name \in ChatNames \cup {NONE}, first_message \in FirstMessages \cup {NONE} :
              CreateChat(name, first_message, NONE))
          \/ (\E role \in Roles, content \in Contents, provider \in Providers :
                 AddMessage(role, content, provider))
          => \A p \in DOMAIN fs :
                /\ Exists(fs', p)
                /\ Len(fs[p]) <= Len(fs'[p])
                /\ SubSeq(fs'[p], 1, Len(fs[p])) = fs[p]
       /\ \A role \in Roles, content \in Contents, provider \in Providers :
             AddMessage(role, content, provider) =>
                LET p == get_chat_file_path(current_chat')
                    m == current_chat'.messages[Len(current_chat'.messages)]
                IN /\ fs'[p] = (IF Exists(fs, p) THEN fs[p] ELSE <<>>)
                                  \o encode_message(current_chat'.message_count, role,
                                                    m.provider, m.timestamp, content)
                   /\ \A q \in DOMAIN fs' \ {p} : Exists(fs, q) /\ fs'[q] = fs[q]]_vars

(***************************************************************************)
(* Claims about archival and about two instances on one store.             *)
(***************************************************************************)
\* C29: a conversation that /summary removes has a summary index entry whose
\* original_chat_id is its id, and a /summary that is not confirmed, that names a
\* conversation with no messages, or whose backend call or summary creation
\* fails leaves the conversation store and the summary store unchanged.
C29_ArchivalAtomic ==
    [][\A x \in ChatIdentifiers, confirm \in Confirms, fails \in BOOLEAN,
          reply \in SummaryReplies :
          LET l == load_chat(chat_index, fs, x)
          IN CmdSummary(x, "long", confirm, fails, reply) =>
               /\ \A e \in Range(chat_index) :
                     (\A f \in Range(chat_index') : f.chat_id # e.chat_id)
                        => \E s \in Range(summary_index') : s.original_chat_id = e.chat_id
               /\ (\/ Lower(StrStrip(confirm)) # "yes"
                   \/ fails
                   \/ l.found /\ l.chat.messages = <<>>)
                  => UNCHANGED <<chat_index, index_json, summary_index, summary_json, fs>>]_vars

\* C30: two instances on one store interleave without locking and the last
\* writer wins with no merge: when an instance mutates, index.json becomes that
\* instance's mapping, so an entry that the other instance saved after this one
\* had loaded its mapping is absent from index.json afterwards.
C30_LastWriterWins ==
    [][/\ \A name \in PeerNames :
             PeerCreateChat(name) =>
                /\ index_json' = peer_index'
                /\ \A e \in Range(index_json) :
                      KeyIndex(peer_index, "chat_id", e.chat_id) = 0
                         => KeyIndex(index_json', "chat_id", e.chat_id) = 0
       /\ \A x \in {peer_index[i].chat_id : i \in 1..Len(peer_index)} :
             PeerDeleteChat(x) =>
                /\ index_json' = peer_index'
                /\ \A e \in Range(index_json) :
                      KeyIndex(peer_index, "chat_id", e.chat_id) = 0
                         => KeyIndex(index_json', "chat_id", e.chat_id) = 0
       /\ \A name \in PeerNames :
             CreateChat(name, NONE, NONE) =>
                /\ index_json' = chat_index'
                /\ \A e \in Range(index_json) :
                      KeyIndex(chat_index, "chat_id", e.chat_id) = 0
                         => KeyIndex(index_json', "chat_id", e.chat_id) = 0]_vars

\* C30 witness: the first instance created and saved a conversation, then the
\* second, whose mapping was loaded before, created one: the first's entry is
\* not in index.json
C30_Witness ==
    /\ last.op = "peer_create_chat"
    /\ clock = 4
    /\ Len(chat_index) = 1
    /\ Len(peer_index) = 1
    /\ index_json = peer_index
    /\ KeyIndex(index_json, "chat_id", chat_index[1].chat_id) = 0

(***************************************************************************)
(* Claims about the composed hierarchy and the links it shows.             *)
(***************************************************************************)
\* C31: the composed node sequence has every namespace, project, conversation
\* and summary of the managers exactly once and nothing else; a namespace with no
\* project is there; and a project whose namespace reference, or a conversation
\* or summary whose project reference, is empty or names no existing entity
\* stands in the standalone groups at the end: standalone projects after every
\* namespace and grouped project, standalone conversations after every project
\* and grouped member, standalone summaries after everything else.
C31_EveryEntityOnce ==
    menu.mode = "list" =>
      LET items == menu.items
          At(type, id) == {i \in 1..Len(items) : items[i].type = type /\ items[i].id = id}
          ns_ids == {e.id : e \in Range(namespace_index)}
          p_ids == {e.id : e \in Range(projects)}
          Alone(n) == IF n.type = "project" THEN Falsy(n.parent) \/ n.parent \notin ns_ids
                      ELSE IF n.type \in {"chat", "summary"}
                      THEN Falsy(n.parent) \/ n.parent \notin p_ids
                      ELSE FALSE
      IN /\ \A e \in Range(namespace_index) : Cardinality(At("namespace", e.id)) = 1
         /\ \A e \in Range(projects) : Cardinality(At("project", e.id)) = 1
         /\ \A e \in Range(chat_index) : Cardinality(At("chat", e.chat_id)) = 1
         /\ \A e \in Range(summary_index) : Cardinality(At("summary", e.summary_id)) = 1
         /\ Len(items) = Len(namespace_index) + Len(projects) + Len(chat_index)
                            + Len(summary_index)
         /\ \A i, j \in 1..Len(items) :
               /\ items[i].type = "project" /\ Alone(items[i])
                  /\ (items[j].type = "namespace"
                      \/ (items[j].type = "project" /\ ~Alone(items[j])))
                  => j < i
               /\ items[i].type = "chat" /\ Alone(items[i])
                  /\ (items[j].type \in {"namespace", "project"}
                      \/ (items[j].type \in {"chat", "summary"} /\ ~Alone(items[j])))
                  => j < i
               /\ items[i].type = "summary" /\ Alone(items[i])
                  /\ (items[j].type # "summary" \/ ~Alone(items[j]))
                  => j < i

\* C31 witness: the menu shows a project whose namespace was deleted and a
\* conversation whose project was deleted, next to a namespace with no project
C31_Witness ==
    /\ menu.mode = "list"
    /\ \E p \in Range(projects) :
          ~Falsy(p.namespace) /\ \A e \in Range(namespace_index) : e.id # p.namespace
    /\ \E c \in Range(chat_index) :
          ~Falsy(c.project) /\ \A e \in Range(projects) : e.id # c.project
    /\ \E n \in Range(menu.items) : n.type = "summary"

\* C32: a summary's index record is never changed after create_summary: viewing
\* a summary leaves the record in memory, and the record persisted afterwards,
\* as written at creation, without the content body.
C32_SummaryRecordKept ==
    /\ \A e \in Range(summary_index) : "content" \notin DOMAIN e
    /\ \A e \in Range(summary_json) : "content" \notin DOMAIN e

C35_CreatedUnderNamespace ==
    [][\A project_name \in ProjectNames, namespace_name \in NamespaceNames :
         LET n == get_namespace(namespace_index, namespace_name)
         IN ProjectCreate(project_name, namespace_name) /\ n # 0
            /\ last'.outcome # "raised"
            => LET items == list_items(chat_index', summary_index', projects',
                                       namespace_index')
                   id == last'.outcome
               IN /\ \A q \in Range(StandaloneProjects(projects', namespace_index')) :
                        q.id # id
                  /\ \E i, j \in 1..Len(items) :
                        /\ i < j
                        /\ items[i].type = "namespace" /\ items[i].id = namespace_index[n].id
                        /\ items[j].type = "project" /\ items[j].id = id
                        /\ \A k \in (i + 1)..(j - 1) : items[k].type # "namespace"]_vars

(***************************************************************************)
(* SpecGroup: /namespace add and /namespace remove on a store of           *)
(* namespaces and projects.                                                *)
(***************************************************************************)
\* project_manager.set_namespace (main.py 1374, 1392): ProjectManager
\* (project.py 9-306) defines no set_namespace, so the call raises
\* AttributeError and the projects are as they were
set_namespace(projs, project_id, namespace_id) ==
    [raised |-> TRUE, projects |-> projs]

\* /namespace add <namespace> <project-id> (main.py 1353-1377).  The
\* AttributeError of set_namespace is caught nowhere (main.py 1758-1763 catch
\* KeyboardInterrupt and EOFError), so the command ends with what add_project
\* has already saved
CmdNamespaceAdd(namespace_name, project_id) ==
    LET i == get_namespace(namespace_index, namespace_name)
        a == add_project(namespace_index, clock, namespace_name, project_id)
        s == set_namespace(projects, project_id,
                           IF i = 0 THEN NONE ELSE namespace_index[i].id)
        added == i # 0 /\ a.result
    IN /\ namespace_index' = IF i # 0 THEN a.index ELSE namespace_index
       /\ namespace_json' = IF i # 0 /\ a.saved THEN a.index ELSE namespace_json
       /\ projects' = IF added /\ ~s.raised THEN s.projects ELSE projects
       /\ clock' = IF i # 0 THEN a.clock ELSE clock
       /\ last' = Call("namespace_add", namespace_name, added, <<project_id>>,
                       IF i = 0 THEN "not found"
                       ELSE IF added /\ s.raised THEN "raised" ELSE Outcome(a.result))
       /\ UNCHANGED <<peer_index, menu_vars, chat_vars, fs, projects_json, summary_vars>>

\* /namespace remove <namespace> <project-id> (main.py 1379-1395)
CmdNamespaceRemove(namespace_name, project_id) ==
    LET r == remove_project(namespace_index, clock, namespace_name, project_id)
        s == set_namespace(projects, project_id, NONE)
    IN /\ namespace_index' = r.index
       /\ namespace_json' = IF r.saved THEN r.index ELSE namespace_json
       /\ projects' = IF r.result /\ ~s.raised THEN s.projects ELSE projects
       /\ clock' = r.clock
       /\ last' = Call("namespace_remove", namespace_name, r.result, <<project_id>>,
                       IF r.result /\ s.raised THEN "raised" ELSE Outcome(r.result))
       /\ UNCHANGED <<peer_index, menu_vars, chat_vars, fs, projects_json, summary_vars>>

GroupNamespaces == {"work", "play"}

GroupCreateNamespace ==
    /\ clock + 2 <= MaxGroupClock
    /\ \E name \in GroupNamespaces : CreateNamespace(name)

GroupProjectCreate ==
    /\ clock + 2 <= MaxGroupClock
    /\ \E project_name \in ProjectNames : ProjectCreate(project_name, NONE)

GroupNamespaceAdd ==
    /\ clock + 1 <= MaxGroupClock
    /\ \E x \in NamespaceIdentifiers, project_id \in ProjectIds \cup {"nope"} :
          CmdNamespaceAdd(x, project_id)

GroupNamespaceRemove ==
    /\ clock + 1 <= MaxGroupClock
    /\ \E x \in NamespaceIdentifiers, project_id \in ProjectIds \cup {"nope"} :
          CmdNamespaceRemove(x, project_id)

NextGroup ==
    \/ GroupCreateNamespace
    \/ GroupProjectCreate
    \/ GroupNamespaceAdd
    \/ GroupNamespaceRemove

SpecGroup == Init /\ [][NextGroup]_vars

\* C36: when '/namespace add N P' or '/namespace remove N P' has finished, in
\* whatever way, for a project P of the store, P is in the member list of a
\* namespace exactly when the project P names that namespace's id as its namespace: the two sides agree
C36_MembershipAgrees ==
    [][ (/\ last'.op \in {"namespace_add", "namespace_remove"}
         /\ last' # last
         /\ \E k \in 1..Len(projects') : projects'[k].id = last'.ids[1])
        => \A i \in 1..Len(namespace_index') :
              LET P == last'.ids[1]
              IN (P \in Range(namespace_index'[i].project_ids))
                 <=> (\E k \in 1..Len(projects') :
                         /\ projects'[k].id = P
                         /\ projects'[k].namespace = namespace_index'[i].id) ]_vars

(***************************************************************************)
(* Claims about the files and the conversation in hand.                    *)
(***************************************************************************)
\* C37: no two entries of the conversation index name the same backing file,
\* whatever create_chat calls were made (the same name in the same second
\* included)
C37_DistinctBackingFiles ==
    \A i, j \in 1..Len(chat_index) :
        i # j => chat_index[i].file_path # chat_index[j].file_path

\* C38: whenever a conversation is in hand, its id is a key of the conversation
\* index; /delete, /list and /summary let go of a conversation they removed
C38_CurrentChatIndexed ==
    current_chat # NoChat => current_chat.chat_id \in ChatIds

\* C39: load_summary of a summary that create_summary wrote with content c
\* returns c with the surrounding whitespace trimmed as its content: the title
\* and the attribution block of the document are not part of it.  c is read off
\* the document: the text that create_summary put after the attribution block
C39_LoadReturnsCreatedContent ==
    [][\A x \in SummaryIdentifiers :
          LET r == load_summary(summary_index, fs, x)
          IN (LoadSummary(x) /\ r.found) =>
                LET summary == summary_index[r.at]
                    doc == fs[summary.file_path]
                IN \E j \in 1..Len(doc) :
                      LET c == SubSeq(doc, j, Len(doc) - 1)
                      IN /\ doc = summary_document(summary, c)
                         /\ summary_index'[r.at].content = strip(c)]_vars

(***************************************************************************)
(* SpecPrompt: the chat loop, a line that is not a command.                *)
(***************************************************************************)
\* a typed line as message text
Text(s) ==
    [i \in 1..Len(s) |->
        IF IsSpaceChar(CharAt(s, i)) THEN Ws(CharAt(s, i)) ELSE Txt(CharAt(s, i))]

\* ChatManager.get_conversation_context: role, content and provider of every
\* message of the conversation
get_conversation_context(chat) ==
    [i \in 1..Len(chat.messages) |->
        [role |-> chat.messages[i].role,
         content |-> chat.messages[i].content,
         provider |-> chat.messages[i].provider]]

\* the chat loop for a line that is not a command (main.py 1729-1756): the
\* conversation is created when none is in hand, the line is added as the user's
\* message, the context is read, the backend is asked, and its answer is added.
\* fails is whether send_message raises, response what it returns otherwise;
\* last.ids is the context handed to send_message.  Each step's result is bound
\* once, in the order the code runs them
CmdPrompt(user_input, fails, response) ==
    \E c \in {create_chat(chat_index, fs, clock, NONE, user_input, NONE)} :
    \E fresh \in {current_chat = NoChat} :
    \E u \in {add_message(IF fresh THEN c.index ELSE chat_index,
                          IF fresh THEN c.fs ELSE fs,
                          IF fresh THEN c.clock ELSE clock,
                          IF fresh THEN c.chat ELSE current_chat,
                          "user", Text(user_input), NONE)} :
    \E context \in {get_conversation_context(u.chat)} :
    \E r \in {IF fails THEN u
               ELSE add_message(u.index, u.fs, u.clock, u.chat,
                                "assistant", response, "claude")} :
        LET id == u.chat.chat_id
            said == <<[role |-> "user", content |-> Text(user_input),
                       provider |-> u.message.provider]>>
                    \o IF fails THEN <<>>
                       ELSE <<[role |-> "assistant", content |-> response,
                               provider |-> r.message.provider]>>
        IN /\ chat_index' = r.index
           /\ index_json' = IF fresh \/ u.saved THEN r.index ELSE index_json
           /\ fs' = r.fs
           /\ clock' = r.clock
           /\ current_chat' = r.chat
           /\ appended' = Remember(appended, id,
                             (IF id \in DOMAIN appended THEN appended[id] ELSE <<>>) \o said)
           /\ last' = Call("send_message", user_input, fails, context,
                           IF fails THEN "raised" ELSE "answered")
           /\ UNCHANGED <<peer_index, menu_vars, project_vars, namespace_vars, summary_vars>>

Prompts == {"hi", "go on"}

PromptSend ==
    /\ clock + 4 <= MaxPromptClock
    /\ \E user_input \in Prompts, fails \in BOOLEAN, response \in SummaryReplies :
          CmdPrompt(user_input, fails, response)

PromptResume == \E x \in ChatIds : ResumeChat(x)

NextPrompt ==
    \/ PromptSend
    \/ PromptResume

SpecPrompt == Init /\ [][NextPrompt]_vars

\* C40: the context handed to the backend's send for a prompt is the messages
\* the conversation had before the prompt, and the prompt itself is not in it
C40_ContextIsPreviousMessages ==
    [][ (last'.op = "send_message" /\ last' # last)
        => /\ last'.ids = get_conversation_context(current_chat)
           /\ \A i \in 1..Len(last'.ids) :
                 ~(last'.ids[i].role = "user" /\ last'.ids[i].content = Text(last'.arg)) ]_vars

====
